---- MODULE Spec2Model ----
(***************************************************************************)
(* A model of parser.tab.c: the bison LALR(1) driver (yyparse) with its    *)
(* tables and semantic actions, the AST constructors, the expression       *)
(* evaluator, the statement executor and the vertical tree printer.        *)
(*                                                                         *)
(* The AST lives in a heap `nodes` (a sequence of Node records, a node's   *)
(* address is its index, NULL is 0).  The three output files (out.txt,     *)
(* tree.txt, outError.txt) are one ordered log `chan` of records tagged    *)
(* with the file they go to; yyout, yytree and yyError are its             *)
(* projections.                                                            *)
(***************************************************************************)
EXTENDS Integers, Sequences, FiniteSets, TLC

(***************************************************************************)
(* Bounds of the model.                                                    *)
(***************************************************************************)
\* free-running scanner: at most this many tokens before end of input
MaxTokens == 3
\* the scanner's line counter stops growing here
MaxLine == 2
\* a caller of the constructors makes at most this many calls
MaxCalls == 1

(***************************************************************************)
(* Node kinds (enum, parser.tab.c:101-112).                                *)
(***************************************************************************)
N_UNKNOWN == 0
N_INT == 1
N_VAR == 2
N_OP == 3
N_DECL == 4
N_ASSIGN == 5
N_PRINT == 6
N_IF == 7
N_BRANCHES == 8
N_STMTLIST == 9

NULL == 0
\* number of slots of sym
SymSize == 256

(***************************************************************************)
(* Token numbers returned by yylex (enum yytokentype; TOK_X is token X)    *)
(* and bison's symbol numbers.                                             *)
(***************************************************************************)
YYEMPTY == -2
YYEOF == 0
YYerror == 256
YYUNDEF == 257
TOK_INTEGER == 258
TOK_VARIABLE == 259
TOK_PRINT == 260
TOK_IF == 261
TOK_ELSE == 262
TOK_INT == 263
TOK_END == 264
TOK_OP == 265
TOK_LOWER_ELSE == 266

YYSYMBOL_YYEOF == 0
YYSYMBOL_YYerror == 1
YYSYMBOL_YYUNDEF == 2

YYFINAL == 3
YYLAST == 69
YYNTOKENS == 21
YYMAXUTOK == 266
YYPACT_NINF == -10

\* C arrays are indexed from 0
At(tbl, i) == tbl[i + 1]

\* yytranslate[] restricted to its entries that are not YYSYMBOL_YYUNDEF
YYTRANSLATE(c) ==
    IF c < 0 \/ c > YYMAXUTOK THEN YYSYMBOL_YYUNDEF
    ELSE CASE c = 0 -> 0
           [] c = 40 -> 18    \* '('
           [] c = 41 -> 19    \* ')'
           [] c = 42 -> 15    \* '*'
           [] c = 43 -> 13    \* '+'
           [] c = 45 -> 14    \* '-'
           [] c = 47 -> 16    \* '/'
           [] c = 58 -> 20    \* ':'
           [] c = 59 -> 17    \* ';'
           [] c = 61 -> 12    \* '='
           [] c >= 256 -> c - 255
           [] OTHER -> YYSYMBOL_YYUNDEF

yypact ==
  << -10,   1,  15, -10, -10,  -7,  -6,  10,  25,  -1,
     -10, -10, -10, -10, -10,  32,  -1,  -1,  -1,  20,
     -10,  11,  -1,  -1,  -1,  -1, -10,  37,  21,  45,
      28,  -1, -10,  -5,  -5, -10, -10, -10,  22,  46,
      -1,  42, -10, -10,  47, -10,  15,  -3,  48, -10,
     -10,  56, -10 >>

yydefact ==
  <<  3,   0,   2,   1,  17,  18,   0,   0,   0,   0,
      4,   5,   6,   7,   8,   0,   0,   0,   0,   0,
     18,   0,   0,   0,   0,   0,   9,   0,   0,   0,
      0,   0,  23,  19,  20,  21,  22,  11,   0,   0,
      0,   0,  12,   3,  16,  10,  15,   0,   0,  14,
      3,   0,  13 >>

yypgoto ==
  << -10, -10,  67, -10, -10, -10, -10, -10,  19, -10,
      -9 >>

yydefgoto ==
  <<  0,   1,  46,  10,  11,  12,  13,  14,  47,  29,
     15 >>

yytable ==
  << 21,   3,   4,  20,  48,  16,  49,  27,  28,  30,
     24,  25,  17,  33,  34,  35,  36,   9,   4,   5,
      6,   7,  41,   8,  22,  23,  24,  25,  18,  19,
     32,  44,  31,   9,  22,  23,  24,  25,  40,  42,
     38,  22,  23,  24,  25,  22,  23,  24,  25,  26,
     22,  23,  24,  25,  37,  22,  23,  24,  25,  45,
     22,  23,  24,  25,  39,  52,  43,   2,  50,  51 >>

yycheck ==
  <<  9,   0,   3,   4,   7,  12,   9,  16,  17,  18,
     15,  16,  18,  22,  23,  24,  25,  18,   3,   4,
      5,   6,  31,   8,  13,  14,  15,  16,  18,   4,
     19,  40,  12,  18,  13,  14,  15,  16,  10,  17,
     19,  13,  14,  15,  16,  13,  14,  15,  16,  17,
     13,  14,  15,  16,  17,  13,  14,  15,  16,  17,
     13,  14,  15,  16,  19,   9,  20,   0,  20,  50 >>

yyr1 ==
  <<  0,  21,  22,  23,  23,  24,  24,  24,  24,  24,
     25,  26,  27,  28,  28,  29,  30,  31,  31,  31,
     31,  31,  31,  31 >>

yyr2 ==
  <<  0,   2,   1,   0,   2,   1,   1,   1,   1,   2,
      5,   4,   5,  10,   7,   1,   3,   1,   1,   3,
      3,   3,   3,   3 >>


(***************************************************************************)
(* State.                                                                  *)
(***************************************************************************)
VARIABLES
    nodes,       \* the heap of malloc'ed Node structs; address = index
    sym,         \* int sym[256]
    chan,        \* everything written to yyout, yytree and yyError, in order
    halted,      \* the process was killed by a trap (undefined behaviour)
    build,       \* what this build does on undefined behaviour
    yyss,        \* yyparse: the state stack
    yyvs,        \* yyparse: the semantic value stack
    yychar,      \* yyparse: the lookahead token number, or YYEMPTY
    yylval,      \* the semantic value of the lookahead
    yylineno,    \* the scanner's line counter
    yyerrstatus, \* yyparse: tokens to shift before error messages resume
    pc,          \* control: "parse", "accepted", "aborted", "build", "ran",
                 \* "evaluated"
    script,      \* the token stream of in.txt when it is fixed in advance
    ntok,        \* number of tokens the scanner has returned
    ncalls,      \* number of constructor calls made by a direct caller
    srcLine,     \* history: the source line each node was written on
    yyls,        \* history: the source line of each entry of yyvs
    tokLine,     \* history: the source line of the lookahead
    nexec,       \* history: number of calls of execute_list made by yyparse
    ret          \* what the last call a caller made of eval_expr returned

vars == << nodes, sym, chan, halted, build, yyss, yyvs, yychar, yylval,
           yylineno, yyerrstatus, pc, script, ntok, ncalls, srcLine, yyls,
           tokLine, nexec, ret >>

\* what the executor works on, and what the scanner and the driver own
execVars == << sym, chan, halted >>
scanVars == << yychar, yylval, yylineno, tokLine, ntok >>
stackVars == << yyss, yyvs, yyls >>

(***************************************************************************)
(* AST constructors (parser.tab.c:125-185).  Each takes the heap and       *)
(* returns the heap with the new node(s) appended; the address of the node *)
(* returned by the C function is Len of the result.                        *)
(***************************************************************************)
Node(label, kind, left, right, int_value, var_id) ==
    [label |-> label, left |-> left, right |-> right, kind |-> kind,
     int_value |-> int_value, var_id |-> var_id]

\* a NULL label is passed as "", which is what the C code turns it into
new_node_kind(h, label, kind, left, right) ==
    Append(h, Node(label, kind, left, right, 0, -1))

new_int_node(h, v) ==
    LET h1 == new_node_kind(h, "", N_INT, NULL, NULL)
        n == Len(h1)
    IN [h1 EXCEPT ![n].label = "INTEGER(" \o ToString(v) \o ")",
                  ![n].int_value = v]

new_var_node(h, id) ==
    LET h1 == new_node_kind(h, "", N_VAR, NULL, NULL)
        n == Len(h1)
    IN [h1 EXCEPT ![n].label = "VAR(id=" \o ToString(id) \o ")",
                  ![n].var_id = id]

\* a plausible bug: the left operand is passed for both children
new_op_node_LeftTwice(h, op, l, r) == new_node_kind(h, op, N_OP, l, l)

new_op_node(h, op, l, r) == new_node_kind(h, op, N_OP, l, r)

\* a plausible bug: the two children are passed in the wrong order
new_decl_node_Swapped(h, varNode, exprNode) ==
    new_node_kind(h, "dec", N_DECL, exprNode, varNode)

new_decl_node(h, varNode, exprNode) ==
    new_node_kind(h, "dec", N_DECL, varNode, exprNode)

new_assign_node(h, varNode, exprNode) ==
    new_node_kind(h, "assign", N_ASSIGN, varNode, exprNode)

\* a plausible bug: the label is written through the pointer to the child
new_print_node_LabelsChild(h, exprNode) ==
    LET h1 == new_node_kind(h, "", N_PRINT, exprNode, NULL)
    IN IF exprNode = NULL THEN h1 ELSE [h1 EXCEPT ![exprNode].label = "print"]

new_print_node(h, exprNode) ==
    new_node_kind(h, "print", N_PRINT, exprNode, NULL)

\* a plausible bug: no branches node is made when there is no else list
new_if_node_NoHolder(h, cond, thenList, elseList) ==
    IF elseList = NULL THEN new_node_kind(h, "if", N_IF, cond, thenList)
    ELSE LET h1 == new_node_kind(h, "branches", N_BRANCHES, thenList, elseList)
         IN new_node_kind(h1, "if", N_IF, cond, Len(h1))

new_if_node(h, cond, thenList, elseList) ==
    LET h1 == new_node_kind(h, "branches", N_BRANCHES, thenList, elseList)
    IN new_node_kind(h1, "if", N_IF, cond, Len(h1))

new_stmtlist_node(h, prevList, stmt) ==
    new_node_kind(h, "stmtlist", N_STMTLIST, prevList, stmt)

(***************************************************************************)
(* Output.  A record of the log: ch is the file ("out", "tree", "err"),    *)
(* text the line written, indent the number of blanks before it (tree),    *)
(* num the last number printed in it with %d (the value in out, yylineno   *)
(* in err; 0 in tree), and node the node the running code was working on   *)
(* when it wrote the record (NULL for the empty lines of the trace).       *)
(***************************************************************************)
Rec(ch, text, indent, num, node) ==
    [ch |-> ch, text |-> text, indent |-> indent, num |-> num, node |-> node]

Separator == "--------------------------------------------------"

\* the executor's state: st.sym, st.chan, st.halted
State(s, c, h) == [sym |-> s, chan |-> c, halted |-> h]

Emit(st, r) == [st EXCEPT !.chan = Append(@, r)]

\* a plausible bug: the message is written to yyout
yyerror_ToYyout(st, s, n) ==
    Emit(st, Rec("out", "Error: " \o s \o " at line " \o ToString(yylineno),
                 0, yylineno, n))

\* void yyerror(char *s), called while working on node n
yyerror(st, s, n) ==
    Emit(st, Rec("err", "Error: " \o s \o " at line " \o ToString(yylineno),
                 0, yylineno, n))

\* fprintf(yyout, "<text>%d\n", val)
fprintf_yyout(st, text, val, n) ==
    Emit(st, Rec("out", text \o ToString(val), 0, val, n))

(***************************************************************************)
(* Undefined behaviour.  A build either traps (the process is killed on    *)
(* the spot) or is lenient: a read through NULL yields a kind that is not  *)
(* N_VAR, a store outside sym[] lands in memory the program never reads,   *)
(* and signed overflow wraps.                                              *)
(***************************************************************************)
Builds == {"trap", "lenient"}

Trap(st) == [st EXCEPT !.halted = TRUE]

INT_MAX == 2147483647
INT_MIN == -2147483647 - 1

\* int arithmetic modulo 2^32, written so that no intermediate value leaves
\* the range of int
WAdd(a, b) ==
    IF b > 0 /\ a > INT_MAX - b THEN (a + INT_MIN) + (b + INT_MIN)
    ELSE IF b < 0 /\ a < INT_MIN - b THEN (a - INT_MIN) + (b - INT_MIN)
    ELSE a + b

WNeg(a) == IF a = INT_MIN THEN INT_MIN ELSE -a

WSub(a, b) == IF b = INT_MIN THEN WAdd(WAdd(a, INT_MAX), 1) ELSE WAdd(a, -b)

RECURSIVE WMul(_, _)
WMul(a, b) ==
    IF b = 0 THEN 0
    ELSE IF b = INT_MIN THEN (IF a % 2 = 0 THEN 0 ELSE INT_MIN)
    ELSE IF b < 0 THEN WNeg(WMul(a, -b))
    ELSE CHOOSE p \in { WAdd(WAdd(h, h), IF b % 2 = 1 THEN a ELSE 0) :
                        h \in { WMul(a, b \div 2) } } : TRUE

AddOverflows(a, b) == (b > 0 /\ a > INT_MAX - b) \/ (b < 0 /\ a < INT_MIN - b)
SubOverflows(a, b) == (b < 0 /\ a > INT_MAX + b) \/ (b > 0 /\ a < INT_MIN + b)

\* the value of an int operation: `wrapped` when `overflows` is false;
\* signed overflow is undefined behaviour
IntResult(st, wrapped, overflows) ==
    IF ~overflows THEN [val |-> wrapped, st |-> st]
    ELSE IF build = "trap" THEN [val |-> 0, st |-> Trap(st)]
    ELSE [val |-> wrapped, st |-> st]

Abs(x) == IF x < 0 THEN -x ELSE x

\* a plausible bug: the quotient is rounded down, not toward zero
CDiv_Floor(L, R) ==
    IF L = INT_MIN \/ R = INT_MIN THEN 0
    ELSE LET q == Abs(L) \div Abs(R)
         IN IF (L < 0) = (R < 0) THEN q
            ELSE IF Abs(L) % Abs(R) = 0 THEN -q
            ELSE -q - 1

\* C's L / R for R # 0 and (L, R) # (INT_MIN, -1): the quotient truncated
\* toward zero
CDiv(L, R) ==
    IF L = INT_MIN
    THEN (IF R = INT_MIN THEN 1
          ELSE IF R > 0 THEN -(INT_MAX \div R) - (IF INT_MAX % R = R - 1 THEN 1 ELSE 0)
          ELSE (INT_MAX \div (-R)) + (IF INT_MAX % (-R) = (-R) - 1 THEN 1 ELSE 0))
    ELSE IF R = INT_MIN THEN 0
    ELSE LET q == Abs(L) \div Abs(R)
         IN IF (L < 0) = (R < 0) THEN q ELSE -q

MulOverflows(a, b) ==
    /\ a # 0 /\ b # 0
    /\ \/ (a = -1 /\ b = INT_MIN) \/ (b = -1 /\ a = INT_MIN)
       \/ (a # -1 /\ b # -1 /\ CDiv(WMul(a, b), b) # a)

(***************************************************************************)
(* printTreeVertical and print_tree_header (parser.tab.c:197-217).         *)
(***************************************************************************)
\* fprintf(yytree, "\n"): an empty line, which names no node
BlankLine == Rec("tree", "", 0, 0, NULL)

RECURSIVE printTreeVertical(_, _)

\* a plausible bug: the loop that writes the blanks starts at 0
printTreeVertical_IndentFromZero(root, space) ==
    IF root = NULL THEN << >>
    ELSE LET spacing_per_level == 5
             sp == space + spacing_per_level
         IN printTreeVertical(nodes[root].right, sp)
            \o << BlankLine, Rec("tree", nodes[root].label, sp, 0, root) >>
            \o printTreeVertical(nodes[root].left, sp)

\* the loop writes one blank for each i in spacing_per_level .. space - 1
printTreeVertical(root, space) ==
    IF root = NULL THEN << >>
    ELSE LET spacing_per_level == 5
             sp == space + spacing_per_level
         IN printTreeVertical(nodes[root].right, sp)
            \o << BlankLine,
                  Rec("tree", nodes[root].label, sp - spacing_per_level, 0, root) >>
            \o printTreeVertical(nodes[root].left, sp)

print_tree_header(n, st) ==
    IF n = NULL THEN st
    ELSE [st EXCEPT !.chan =
              @ \o printTreeVertical(n, 0)
                \o << BlankLine, Rec("tree", Separator, 0, 0, n), BlankLine >>]

(***************************************************************************)
(* eval_expr (parser.tab.c:220-254): returns [val, st].                    *)
(***************************************************************************)
BoolInt(b) == IF b THEN 1 ELSE 0

\* a plausible bug: no test for a zero divisor, so the division traps
apply_op_NoZeroTest(n, L, R, st) ==
    LET label == nodes[n].label
    IN CASE label = "+" -> IntResult(st, WAdd(L, R), AddOverflows(L, R))
         [] label = "-" -> IntResult(st, WSub(L, R), SubOverflows(L, R))
         [] label = "*" -> IntResult(st, WMul(L, R), MulOverflows(L, R))
         [] label = "/" ->
              IF R = 0 THEN [val |-> 0, st |-> Trap(st)]
              ELSE IF L = INT_MIN /\ R = -1 THEN IntResult(st, INT_MIN, TRUE)
              ELSE IntResult(st, CDiv(L, R), FALSE)
         [] label = "==" -> [val |-> BoolInt(L = R), st |-> st]
         [] label = "!=" -> [val |-> BoolInt(L # R), st |-> st]
         [] label = "<=" -> [val |-> BoolInt(L <= R), st |-> st]
         [] label = ">=" -> [val |-> BoolInt(L >= R), st |-> st]
         [] label = "<" -> [val |-> BoolInt(L < R), st |-> st]
         [] label = ">" -> [val |-> BoolInt(L > R), st |-> st]
         [] OTHER ->
              [val |-> 0, st |-> yyerror(st, "Unknown operator in eval_expr", n)]

\* a plausible bug: <= is computed as <
apply_op_LeAsLt(n, L, R, st) ==
    LET label == nodes[n].label
    IN CASE label = "+" -> IntResult(st, WAdd(L, R), AddOverflows(L, R))
         [] label = "-" -> IntResult(st, WSub(L, R), SubOverflows(L, R))
         [] label = "*" -> IntResult(st, WMul(L, R), MulOverflows(L, R))
         [] label = "/" ->
              IF R = 0 THEN [val |-> 0, st |-> yyerror(st, "Division by zero", n)]
              ELSE IF L = INT_MIN /\ R = -1 THEN IntResult(st, INT_MIN, TRUE)
              ELSE IntResult(st, CDiv(L, R), FALSE)
         [] label = "==" -> [val |-> BoolInt(L = R), st |-> st]
         [] label = "!=" -> [val |-> BoolInt(L # R), st |-> st]
         [] label = "<=" -> [val |-> BoolInt(L < R), st |-> st]
         [] label = ">=" -> [val |-> BoolInt(L >= R), st |-> st]
         [] label = "<" -> [val |-> BoolInt(L < R), st |-> st]
         [] label = ">" -> [val |-> BoolInt(L > R), st |-> st]
         [] OTHER ->
              [val |-> 0, st |-> yyerror(st, "Unknown operator in eval_expr", n)]

\* a plausible bug: no final else, so an unknown operator yields 0 unreported
apply_op_NoDefault(n, L, R, st) ==
    LET label == nodes[n].label
    IN CASE label = "+" -> IntResult(st, WAdd(L, R), AddOverflows(L, R))
         [] label = "-" -> IntResult(st, WSub(L, R), SubOverflows(L, R))
         [] label = "*" -> IntResult(st, WMul(L, R), MulOverflows(L, R))
         [] label = "/" ->
              IF R = 0 THEN [val |-> 0, st |-> yyerror(st, "Division by zero", n)]
              ELSE IF L = INT_MIN /\ R = -1 THEN IntResult(st, INT_MIN, TRUE)
              ELSE IntResult(st, CDiv(L, R), FALSE)
         [] label = "==" -> [val |-> BoolInt(L = R), st |-> st]
         [] label = "!=" -> [val |-> BoolInt(L # R), st |-> st]
         [] label = "<=" -> [val |-> BoolInt(L <= R), st |-> st]
         [] label = ">=" -> [val |-> BoolInt(L >= R), st |-> st]
         [] label = "<" -> [val |-> BoolInt(L < R), st |-> st]
         [] label = ">" -> [val |-> BoolInt(L > R), st |-> st]
         [] OTHER -> [val |-> 0, st |-> st]

\* the N_OP case once both operands are evaluated
apply_op(n, L, R, st) ==
    LET label == nodes[n].label
    IN CASE label = "+" -> IntResult(st, WAdd(L, R), AddOverflows(L, R))
         [] label = "-" -> IntResult(st, WSub(L, R), SubOverflows(L, R))
         [] label = "*" -> IntResult(st, WMul(L, R), MulOverflows(L, R))
         [] label = "/" ->
              IF R = 0 THEN [val |-> 0, st |-> yyerror(st, "Division by zero", n)]
              ELSE IF L = INT_MIN /\ R = -1 THEN IntResult(st, INT_MIN, TRUE)
              ELSE IntResult(st, CDiv(L, R), FALSE)
         [] label = "==" -> [val |-> BoolInt(L = R), st |-> st]
         [] label = "!=" -> [val |-> BoolInt(L # R), st |-> st]
         [] label = "<=" -> [val |-> BoolInt(L <= R), st |-> st]
         [] label = ">=" -> [val |-> BoolInt(L >= R), st |-> st]
         [] label = "<" -> [val |-> BoolInt(L < R), st |-> st]
         [] label = ">" -> [val |-> BoolInt(L > R), st |-> st]
         [] OTHER ->
              [val |-> 0, st |-> yyerror(st, "Unknown operator in eval_expr", n)]

\* a plausible bug: the range test excludes id 0
read_var_OffByOne(n, st) ==
    LET id == nodes[n].var_id
    IN IF id > 0 /\ id < SymSize THEN st.sym[id] ELSE 0

\* a plausible bug: the id is reduced into the range instead of tested
read_var_Wrapped(n, st) ==
    LET id == nodes[n].var_id
    IN st.sym[id % SymSize]

\* case N_VAR
read_var(n, st) ==
    LET id == nodes[n].var_id
    IN IF id >= 0 /\ id < SymSize THEN st.sym[id] ELSE 0

RECURSIVE eval_expr(_, _)

\* a plausible bug: the right operand is evaluated before the left one
eval_expr_RightFirst(n, st) ==
    IF n = NULL \/ st.halted THEN [val |-> 0, st |-> st]
    ELSE CASE nodes[n].kind = N_INT -> [val |-> nodes[n].int_value, st |-> st]
           [] nodes[n].kind = N_VAR -> [val |-> read_var(n, st), st |-> st]
           [] nodes[n].kind = N_OP ->
                LET r == eval_expr(nodes[n].right, st)
                    l == eval_expr(nodes[n].left, r.st)
                IN IF l.st.halted THEN [val |-> 0, st |-> l.st]
                   ELSE apply_op(n, l.val, r.val, l.st)
           [] OTHER ->
                [val |-> 0,
                 st |-> yyerror(st, "eval_expr: expected expression node", n)]

eval_expr(n, st) ==
    IF n = NULL \/ st.halted THEN [val |-> 0, st |-> st]
    ELSE CASE nodes[n].kind = N_INT -> [val |-> nodes[n].int_value, st |-> st]
           [] nodes[n].kind = N_VAR -> [val |-> read_var(n, st), st |-> st]
           [] nodes[n].kind = N_OP ->
                LET l == eval_expr(nodes[n].left, st)
                    r == eval_expr(nodes[n].right, l.st)
                IN IF r.st.halted THEN [val |-> 0, st |-> r.st]
                   ELSE apply_op(n, l.val, r.val, r.st)
           [] OTHER ->
                [val |-> 0,
                 st |-> yyerror(st, "eval_expr: expected expression node", n)]

(***************************************************************************)
(* execute_stmt and execute_list (parser.tab.c:261-340): return st.        *)
(***************************************************************************)
\* a plausible bug: the line is printed before the store, from the slot
store_var_PrintsOld(stmt, id, val, verb, st) ==
    LET written ==
            IF id >= 0 /\ id < SymSize THEN [st EXCEPT !.sym[id] = val]
            ELSE IF build = "trap" THEN Trap(st)
            ELSE st
    IN IF written.halted THEN written
       ELSE fprintf_yyout(written, verb \o " var[" \o ToString(id) \o "] = ",
                          IF id >= 0 /\ id < SymSize THEN st.sym[id] ELSE val,
                          stmt)

\* a plausible bug: slots are counted from 1, so the value lands one slot up
store_var_OneUp(stmt, id, val, verb, st) ==
    LET written ==
            IF id >= 0 /\ id + 1 < SymSize THEN [st EXCEPT !.sym[id + 1] = val]
            ELSE IF build = "trap" THEN Trap(st)
            ELSE st
    IN IF written.halted THEN written
       ELSE fprintf_yyout(written,
                verb \o " var[" \o ToString(id) \o "] = ", val, stmt)

\* sym[id] = val; fprintf(yyout, "<verb> var[%d] = %d\n", id, val);
store_var(stmt, id, val, verb, st) ==
    LET written ==
            IF id >= 0 /\ id < SymSize THEN [st EXCEPT !.sym[id] = val]
            ELSE IF build = "trap" THEN Trap(st)
            ELSE st
    IN IF written.halted THEN written
       ELSE fprintf_yyout(written,
                verb \o " var[" \o ToString(id) \o "] = ", val, stmt)

\* a plausible bug: the kind of the left side is not tested
exec_store_NoKindTest(stmt, verb, msg, st) ==
    LET varNode == nodes[stmt].left
        exprNode == nodes[stmt].right
        e == eval_expr(exprNode, st)
    IN IF e.st.halted THEN e.st
       ELSE IF varNode = NULL
            THEN IF build = "trap" THEN Trap(e.st) ELSE yyerror(e.st, msg, stmt)
       ELSE store_var(stmt, nodes[varNode].var_id, e.val, verb, e.st)

\* a plausible bug: a variable whose slot is not 0 counts as declared, and
\* declaring it again is reported instead of done
exec_store_DeclaredOnce(stmt, verb, msg, st) ==
    LET varNode == nodes[stmt].left
        exprNode == nodes[stmt].right
        e == eval_expr(exprNode, st)
    IN IF e.st.halted THEN e.st
       ELSE IF varNode = NULL
            THEN IF build = "trap" THEN Trap(e.st) ELSE yyerror(e.st, msg, stmt)
       ELSE IF nodes[varNode].kind # N_VAR THEN yyerror(e.st, msg, stmt)
       ELSE IF verb = "Declared" /\ read_var(varNode, e.st) # 0
            THEN yyerror(e.st, "Variable already declared", stmt)
       ELSE store_var(stmt, nodes[varNode].var_id, e.val, verb, e.st)

\* cases N_DECL and N_ASSIGN, which differ in the two strings only
exec_store(stmt, verb, msg, st) ==
    LET varNode == nodes[stmt].left
        exprNode == nodes[stmt].right
        e == eval_expr(exprNode, st)
    IN IF e.st.halted THEN e.st
       ELSE IF varNode = NULL
            THEN IF build = "trap" THEN Trap(e.st) ELSE yyerror(e.st, msg, stmt)
       ELSE IF nodes[varNode].kind = N_VAR
            THEN store_var(stmt, nodes[varNode].var_id, e.val, verb, e.st)
       ELSE yyerror(e.st, msg, stmt)

\* case N_PRINT
exec_print(stmt, st) ==
    LET e == eval_expr(nodes[stmt].left, st)
    IN IF e.st.halted THEN e.st
       ELSE fprintf_yyout(e.st, "Print: ", e.val, stmt)

RECURSIVE execute_stmt(_, _), execute_list(_, _)

\* a plausible bug: the else list is chosen when the condition is nonzero
if_branch_Inverted(stmt, cond_val) ==
    LET branches == nodes[stmt].right
    IN IF branches # NULL /\ nodes[branches].kind = N_BRANCHES
       THEN IF cond_val # 0 THEN nodes[branches].right ELSE nodes[branches].left
       ELSE -1

\* case N_IF: the list to execute, or -1 when the branches are malformed
if_branch(stmt, cond_val) ==
    LET branches == nodes[stmt].right
    IN IF branches # NULL /\ nodes[branches].kind = N_BRANCHES
       THEN IF cond_val # 0 THEN nodes[branches].left ELSE nodes[branches].right
       ELSE -1

\* a plausible bug: a missing `else`, so the else list runs after the then list
exec_if_Fallthrough(stmt, st) ==
    LET c == eval_expr(nodes[stmt].left, st)
        branches == nodes[stmt].right
    IN IF c.st.halted THEN c.st
       ELSE IF if_branch(stmt, c.val) = -1
            THEN yyerror(c.st, "If branches malformed", stmt)
       ELSE execute_list(nodes[branches].right,
                IF c.val # 0 THEN execute_list(nodes[branches].left, c.st) ELSE c.st)

\* a plausible bug: an absent else list is taken for a malformed if
exec_if_ElseRequired(stmt, st) ==
    LET c == eval_expr(nodes[stmt].left, st)
        b == if_branch(stmt, c.val)
    IN IF c.st.halted THEN c.st
       ELSE IF b = -1 \/ b = NULL THEN yyerror(c.st, "If branches malformed", stmt)
       ELSE execute_list(b, c.st)

\* case N_IF
exec_if(stmt, st) ==
    LET c == eval_expr(nodes[stmt].left, st)
        b == if_branch(stmt, c.val)
    IN IF c.st.halted THEN c.st
       ELSE IF b = -1 THEN yyerror(c.st, "If branches malformed", stmt)
       ELSE execute_list(b, c.st)

execute_stmt(stmt, st) ==
    IF stmt = NULL \/ st.halted THEN st
    ELSE LET s1 == print_tree_header(stmt, st)
             kind == nodes[stmt].kind
         IN CASE kind = N_DECL ->
                   exec_store(stmt, "Declared",
                              "Declaration left side is not a variable", s1)
              [] kind = N_ASSIGN ->
                   exec_store(stmt, "Assigned",
                              "Assignment left side is not a variable", s1)
              [] kind = N_PRINT -> exec_print(stmt, s1)
              [] kind = N_IF -> exec_if(stmt, s1)
              [] kind = N_STMTLIST -> execute_list(stmt, s1)
              [] OTHER -> yyerror(s1, "Unknown statement kind in execute_stmt", stmt)

\* a plausible bug: the newest statement is executed before the previous list
execute_list_StmtFirst(list, st) ==
    IF list = NULL \/ st.halted THEN st
    ELSE IF nodes[list].kind = N_STMTLIST
         THEN execute_list(nodes[list].left, execute_stmt(nodes[list].right, st))
         ELSE execute_stmt(list, st)

\* a plausible bug: every list handed over is rendered as a block as well
execute_list_Rendered(list, st) ==
    IF list = NULL \/ st.halted THEN st
    ELSE IF nodes[list].kind = N_STMTLIST
         THEN execute_stmt(nodes[list].right,
                  execute_list(nodes[list].left, print_tree_header(list, st)))
         ELSE execute_stmt(list, st)

execute_list(list, st) ==
    IF list = NULL \/ st.halted THEN st
    ELSE IF nodes[list].kind = N_STMTLIST
         THEN execute_stmt(nodes[list].right, execute_list(nodes[list].left, st))
         ELSE execute_stmt(list, st)


(***************************************************************************)
(* The scanner (yylex is outside this file): it returns a token number,    *)
(* sets yylval and counts lines in yylineno.                               *)
(***************************************************************************)
\* YYSTYPE: a union of ival, sval and node; one record with the three members
Val(ival, sval, node) == [ival |-> ival, sval |-> sval, node |-> node]
NoVal == Val(0, "", NULL)

Tok(t, ival, sval) == [tok |-> t, val |-> Val(ival, sval, NULL)]
tInt(v) == Tok(TOK_INTEGER, v, "")
tVar(id) == Tok(TOK_VARIABLE, id, "")
tOp(op) == Tok(TOK_OP, 0, op)
tKw(t) == Tok(t, 0, "")
\* single-character tokens, by character code
tLP == tKw(40)
tRP == tKw(41)
tMul == tKw(42)
tPlus == tKw(43)
tMinus == tKw(45)
tDiv == tKw(47)
tColon == tKw(58)
tSemi == tKw(59)
tEq == tKw(61)
tEOF == tKw(YYEOF)

\* what the free-running scanner may return
FreeTokens ==
    { tInt(0), tInt(1), tVar(0), tOp("=="), tKw(TOK_PRINT), tKw(TOK_IF),
      tKw(TOK_ELSE), tKw(TOK_INT), tKw(TOK_END), tLP, tRP, tPlus, tDiv,
      tColon, tSemi, tEq, tKw(33), tKw(YYerror) }

(***************************************************************************)
(* yyparse (parser.tab.c:1139-1760).                                       *)
(***************************************************************************)
Top(stk) == stk[Len(stk)]
Pop(stk, k) == SubSeq(stk, 1, Len(stk) - k)

\* yybackup: the symbol kind of the lookahead
yytoken == IF yychar <= YYEOF THEN YYSYMBOL_YYEOF ELSE YYTRANSLATE(yychar)

\* yybackup needs a lookahead in this state
NeedsLookahead(state) == At(yypact, state) # YYPACT_NINF

\* yybackup/yydefault: what to do in `state`; the lookahead is read only
\* when the state needs one
Decide(state) ==
    LET dflt == IF At(yydefact, state) = 0 THEN [do |-> "error", n |-> 0]
                ELSE [do |-> "reduce", n |-> At(yydefact, state)]
        yyn == At(yypact, state) + yytoken
    IN IF ~NeedsLookahead(state) THEN dflt
       ELSE IF yychar = YYerror THEN [do |-> "errlab1", n |-> 0]
       ELSE IF yyn < 0 \/ YYLAST < yyn \/ At(yycheck, yyn) # yytoken THEN dflt
       ELSE IF At(yytable, yyn) <= 0 THEN [do |-> "reduce", n |-> -At(yytable, yyn)]
       ELSE [do |-> "shift", n |-> At(yytable, yyn)]

Parsing == pc = "parse" /\ Top(yyss) # YYFINAL

\* yychar = yylex ()
yylex ==
    /\ Parsing
    /\ NeedsLookahead(Top(yyss))
    /\ yychar = YYEMPTY
    /\ \E t \in FreeTokens \cup {tEOF} \cup
                {script[i] : i \in DOMAIN script} :
         /\ IF script = << >>
            THEN t \in FreeTokens \cup {tEOF} /\ (ntok >= MaxTokens => t = tEOF)
            ELSE t = IF ntok < Len(script) THEN script[ntok + 1] ELSE tEOF
         /\ yychar' = t.tok
         /\ yylval' = t.val
         /\ ntok' = IF t = tEOF THEN ntok ELSE ntok + 1
    /\ \E l \in {yylineno, yylineno + 1} :
         /\ l <= MaxLine
         /\ yylineno' = l
         /\ tokLine' = l
    /\ UNCHANGED << nodes, execVars, stackVars, build, ret, yyerrstatus, pc,
                    script, ncalls, srcLine, nexec >>

\* shift the lookahead token
yyshift ==
    /\ Parsing
    /\ yychar # YYEMPTY
    /\ Decide(Top(yyss)).do = "shift"
    /\ yyerrstatus' = IF yyerrstatus > 0 THEN yyerrstatus - 1 ELSE yyerrstatus
    /\ yyss' = Append(yyss, Decide(Top(yyss)).n)
    /\ yyvs' = Append(yyvs, yylval)
    /\ yyls' = Append(yyls, tokLine)
    /\ yychar' = YYEMPTY
    /\ UNCHANGED << nodes, execVars, build, ret, yylval, yylineno, tokLine, ntok,
                    pc, script, ncalls, srcLine, nexec >>

\* the goto after reducing rule n with `below` the state uncovered by the pop
Goto(n, below) ==
    LET yylhs == At(yyr1, n) - YYNTOKENS
        yyi == At(yypgoto, yylhs) + below
    IN IF 0 <= yyi /\ yyi <= YYLAST /\ At(yycheck, yyi) = below
       THEN At(yytable, yyi)
       ELSE At(yydefgoto, yylhs)

\* the semantic action of rule n: the heap after it and the value of $$.
\* a plausible bug: rule 9 (stmt: expr ';') keeps the expression node as the
\* statement instead of wrapping it
SemAction_BareExpr(n) ==
    LET V(k) == yyvs[Len(yyvs) + k]
        dflt == IF At(yyr2, n) = 0 THEN NoVal ELSE V(1 - At(yyr2, n))
        Made(h) == [h |-> h, val |-> Val(0, "", Len(h))]
    IN CASE n = 3 -> [h |-> nodes, val |-> Val(0, "", NULL)]
         [] n = 4 -> IF V(-1).node = NULL
                     THEN Made(new_stmtlist_node(nodes, NULL, V(0).node))
                     ELSE Made(new_stmtlist_node(nodes, V(-1).node, V(0).node))
         [] n \in {5, 6, 7, 8, 15} -> [h |-> nodes, val |-> Val(0, "", V(0).node)]
         [] n = 9 -> [h |-> nodes, val |-> Val(0, "", V(-1).node)]
         [] n = 10 -> LET h1 == new_var_node(nodes, V(-3).ival)
                      IN Made(new_decl_node(h1, Len(h1), V(-1).node))
         [] n = 11 -> LET h1 == new_var_node(nodes, V(-3).ival)
                      IN Made(new_assign_node(h1, Len(h1), V(-1).node))
         [] n = 12 -> Made(new_print_node(nodes, V(-2).node))
         [] n = 13 -> Made(new_if_node(nodes, V(-7).node, V(-4).node, V(-1).node))
         [] n = 14 -> Made(new_if_node(nodes, V(-4).node, V(-1).node, NULL))
         [] n = 16 -> Made(new_op_node(nodes, V(-1).sval, V(-2).node, V(0).node))
         [] n = 17 -> Made(new_int_node(nodes, V(0).ival))
         [] n = 18 -> Made(new_var_node(nodes, V(0).ival))
         [] n = 19 -> Made(new_op_node(nodes, "+", V(-2).node, V(0).node))
         [] n = 20 -> Made(new_op_node(nodes, "-", V(-2).node, V(0).node))
         [] n = 21 -> Made(new_op_node(nodes, "*", V(-2).node, V(0).node))
         [] n = 22 -> Made(new_op_node(nodes, "/", V(-2).node, V(0).node))
         [] n = 23 -> [h |-> nodes, val |-> Val(0, "", V(-1).node)]
         [] OTHER -> [h |-> nodes, val |-> dflt]

\* V(k) is yyvsp[k].
SemAction(n) ==
    LET V(k) == yyvs[Len(yyvs) + k]
        dflt == IF At(yyr2, n) = 0 THEN NoVal ELSE V(1 - At(yyr2, n))
        Made(h) == [h |-> h, val |-> Val(0, "", Len(h))]
    IN CASE n = 3 -> [h |-> nodes, val |-> Val(0, "", NULL)]
         [] n = 4 -> IF V(-1).node = NULL
                     THEN Made(new_stmtlist_node(nodes, NULL, V(0).node))
                     ELSE Made(new_stmtlist_node(nodes, V(-1).node, V(0).node))
         [] n \in {5, 6, 7, 8, 15} -> [h |-> nodes, val |-> Val(0, "", V(0).node)]
         [] n = 9 -> Made(new_print_node(nodes, V(-1).node))
         [] n = 10 -> LET h1 == new_var_node(nodes, V(-3).ival)
                      IN Made(new_decl_node(h1, Len(h1), V(-1).node))
         [] n = 11 -> LET h1 == new_var_node(nodes, V(-3).ival)
                      IN Made(new_assign_node(h1, Len(h1), V(-1).node))
         [] n = 12 -> Made(new_print_node(nodes, V(-2).node))
         [] n = 13 -> Made(new_if_node(nodes, V(-7).node, V(-4).node, V(-1).node))
         [] n = 14 -> Made(new_if_node(nodes, V(-4).node, V(-1).node, NULL))
         [] n = 16 -> Made(new_op_node(nodes, V(-1).sval, V(-2).node, V(0).node))
         [] n = 17 -> Made(new_int_node(nodes, V(0).ival))
         [] n = 18 -> Made(new_var_node(nodes, V(0).ival))
         [] n = 19 -> Made(new_op_node(nodes, "+", V(-2).node, V(0).node))
         [] n = 20 -> Made(new_op_node(nodes, "-", V(-2).node, V(0).node))
         [] n = 21 -> Made(new_op_node(nodes, "*", V(-2).node, V(0).node))
         [] n = 22 -> Made(new_op_node(nodes, "/", V(-2).node, V(0).node))
         [] n = 23 -> [h |-> nodes, val |-> Val(0, "", V(-1).node)]
         [] OTHER -> [h |-> nodes, val |-> dflt]

\* a plausible bug: each statement is also executed as soon as rule 4
\* (stmts: stmts stmt) has added it to the list
RunProgram_PerStatement(n, root) ==
    IF n \in {2, 4}
    THEN LET st == execute_list(root, State(sym, chan, halted))
         IN /\ sym' = st.sym
            /\ chan' = st.chan
            /\ halted' = st.halted
            /\ nexec' = nexec + 1
    ELSE UNCHANGED << sym, chan, halted, nexec >>

\* rule 2, program: stmts { execute_list($1); }
RunProgram(n, root) ==
    IF n = 2
    THEN LET st == execute_list(root, State(sym, chan, halted))
         IN /\ sym' = st.sym
            /\ chan' = st.chan
            /\ halted' = st.halted
            /\ nexec' = nexec + 1
    ELSE UNCHANGED << sym, chan, halted, nexec >>

\* yyreduce: reduce by rule n
yyreduce ==
    /\ Parsing
    /\ ~halted
    /\ NeedsLookahead(Top(yyss)) => yychar # YYEMPTY
    /\ Decide(Top(yyss)).do = "reduce"
    /\ LET n == Decide(Top(yyss)).n
           yylen == At(yyr2, n)
           act == SemAction(n)
           line == IF yylen = 0 THEN yylineno ELSE yyls[Len(yyls) + 1 - yylen]
           ss == Pop(yyss, yylen)
       IN /\ nodes' = act.h
          /\ srcLine' = srcLine \o [i \in 1..(Len(act.h) - Len(nodes)) |-> line]
          /\ RunProgram(n, yyvs[Len(yyvs)].node)
          /\ yyvs' = Append(Pop(yyvs, yylen), act.val)
          /\ yyls' = Append(Pop(yyls, yylen), line)
          /\ yyss' = Append(ss, Goto(n, Top(ss)))
    /\ UNCHANGED << build, ret, scanVars, yyerrstatus, pc, script, ncalls >>

\* yyerrlab1: some state on the stack shifts the error token
ShiftsError(state) ==
    LET yyn == At(yypact, state) + YYSYMBOL_YYerror
    IN /\ NeedsLookahead(state)
       /\ 0 <= yyn /\ yyn <= YYLAST
       /\ At(yycheck, yyn) = YYSYMBOL_YYerror
       /\ 0 < At(yytable, yyn)

\* yyerrlab, yyerrlab1: report the syntax error; no state of this grammar
\* shifts the error token, so the stack is popped to its bottom and the
\* parse is aborted (yyresult = 1)
yyerrlab ==
    /\ Parsing
    /\ ~halted
    /\ NeedsLookahead(Top(yyss)) => yychar # YYEMPTY
    /\ Decide(Top(yyss)).do \in {"error", "errlab1"}
    /\ \A i \in DOMAIN yyss : ~ShiftsError(yyss[i])
    /\ chan' = IF Decide(Top(yyss)).do = "error" /\ yyerrstatus = 0
               THEN yyerror(State(sym, chan, halted), "syntax error", NULL).chan
               ELSE chan
    /\ yyerrstatus' = 3
    /\ pc' = "aborted"
    /\ UNCHANGED << nodes, sym, halted, build, ret, stackVars, scanVars, script,
                    ncalls, srcLine, nexec >>

\* yysetstate: if (yystate == YYFINAL) YYACCEPT (yyresult = 0)
yyaccept ==
    /\ pc = "parse"
    /\ ~halted
    /\ Top(yyss) = YYFINAL
    /\ pc' = "accepted"
    /\ UNCHANGED << nodes, execVars, build, ret, stackVars, scanVars,
                    yyerrstatus, script, ncalls, srcLine, nexec >>

\* the value yyparse returns: 0 accepted, 1 aborted, -1 not returned yet
yyresult == CASE pc = "accepted" -> 0 [] pc = "aborted" -> 1 [] OTHER -> -1

(***************************************************************************)
(* Programs fed to the parser as fixed token streams.                      *)
(***************************************************************************)
\* print ( <toks> ) ;
pPrint(toks) == << tKw(TOK_PRINT), tLP >> \o toks \o << tRP, tSemi >>
\* int v = <toks> ;
pDecl(id, toks) == << tKw(TOK_INT), tVar(id), tEq >> \o toks \o << tSemi >>
\* v = <toks> ;
pAssign(id, toks) == << tVar(id), tEq >> \o toks \o << tSemi >>
\* if ( <l> op <r> ) : <th> else : <el> end
pIfElse(l, op, r, th, el) ==
    << tKw(TOK_IF), tLP >> \o l \o << tOp(op) >> \o r \o << tRP, tColon >> \o th
    \o << tKw(TOK_ELSE), tColon >> \o el \o << tKw(TOK_END) >>
\* if ( <l> op <r> ) : <th> end
pIf(l, op, r, th) ==
    << tKw(TOK_IF), tLP >> \o l \o << tOp(op) >> \o r \o << tRP, tColon >> \o th
    \o << tKw(TOK_END) >>

\* int a = 3; a = a + 4; print(a);
RoundTripScript ==
    pDecl(0, << tInt(3) >>) \o pAssign(0, << tVar(0), tPlus, tInt(4) >>)
        \o pPrint(<< tVar(0) >>)

\* print(x);
PrintUnsetScript == pPrint(<< tVar(1) >>)

\* print(5 / 0); print(9);
DivByZeroScript == pPrint(<< tInt(5), tDiv, tInt(0) >>) \o pPrint(<< tInt(9) >>)

\* print(1); print(2); print(3);
ThreePrintsScript ==
    pPrint(<< tInt(1) >>) \o pPrint(<< tInt(2) >>) \o pPrint(<< tInt(3) >>)

\* if (1 == 1): print(1); else: print(2); end
IfElseScript ==
    pIfElse(<< tInt(1) >>, "==", << tInt(1) >>,
            pPrint(<< tInt(1) >>), pPrint(<< tInt(2) >>))

\* if (1 == 2): print(1); end print(7);
IfNotTakenScript ==
    pIf(<< tInt(1) >>, "==", << tInt(2) >>, pPrint(<< tInt(1) >>))
        \o pPrint(<< tInt(7) >>)

\* print(0); if (x < 1): x = 2 / 0; 8; else: print(1 / 0); int y = 1; end
\* print((x - 3) * 2); )
TrailingParenScript ==
    pPrint(<< tInt(0) >>)
        \o pIfElse(<< tVar(0) >>, "<", << tInt(1) >>,
                   pAssign(0, << tInt(2), tDiv, tInt(0) >>) \o << tInt(8), tSemi >>,
                   pPrint(<< tInt(1), tDiv, tInt(0) >>) \o pDecl(1, << tInt(1) >>))
        \o pPrint(<< tLP, tVar(0), tMinus, tInt(3), tRP, tMul, tInt(2) >>)
        \o << tRP >>

\* if (2 > 1): if (0 != 0): print(4); else: 6 / 0; end print(5); end 7 / 0;
NestedIfScript ==
    pIf(<< tInt(2) >>, ">", << tInt(1) >>,
        pIfElse(<< tInt(0) >>, "!=", << tInt(0) >>,
                pPrint(<< tInt(4) >>), << tInt(6), tDiv, tInt(0), tSemi >>)
        \o pPrint(<< tInt(5) >>))
        \o << tInt(7), tDiv, tInt(0), tSemi >>

\* int y = 2; print(x); x = 5; print(x); print(y);
TwoVarsScript ==
    pDecl(1, << tInt(2) >>) \o pPrint(<< tVar(0) >>) \o pAssign(0, << tInt(5) >>)
        \o pPrint(<< tVar(0) >>) \o pPrint(<< tVar(1) >>)

\* if (1 / 0 == 1): x = 3; end print(x);
IfNoElseScript ==
    pIf(<< tInt(1), tDiv, tInt(0) >>, "==", << tInt(1) >>,
        pAssign(0, << tInt(3) >>))
        \o pPrint(<< tVar(0) >>)

\* int a = 1; int a = 2; b = 3; print(a + b);
DeclaredTwiceScript ==
    pDecl(0, << tInt(1) >>) \o pDecl(0, << tInt(2) >>)
        \o pAssign(1, << tInt(3) >>) \o pPrint(<< tVar(0), tPlus, tVar(1) >>)

\* if (1 % 2): print(1); end   (% scanned as an OP token)
UnknownOpScript ==
    pIf(<< tInt(1) >>, "%", << tInt(2) >>, pPrint(<< tInt(1) >>))

Scripts ==
    { UnknownOpScript, DeclaredTwiceScript, IfNoElseScript, RoundTripScript, PrintUnsetScript, DivByZeroScript, ThreePrintsScript,
      IfElseScript, IfNotTakenScript, TrailingParenScript, NestedIfScript,
      TwoVarsScript }

(***************************************************************************)
(* The run of main(): yyparse on in.txt.                                   *)
(***************************************************************************)
\* a plausible bug: the array is not static, so it starts with what the
\* memory held
sym_Uninitialised == [i \in 0..(SymSize - 1) |-> IF i < 2 THEN 7 ELSE 0]

\* int sym[256]: static storage, all zero when the program starts
ZeroSym == [i \in 0..(SymSize - 1) |-> 0]

Init ==
    /\ nodes = << >>
    /\ sym = ZeroSym
    /\ chan = << >>
    /\ halted = FALSE
    /\ build \in Builds
    /\ yyss = << 0 >>
    /\ yyvs = << NoVal >>
    /\ yychar = YYEMPTY
    /\ yylval = NoVal
    /\ yylineno = 1
    /\ yyerrstatus = 0
    /\ pc = "parse"
    /\ script \in Scripts \cup { << >> }
    /\ ntok = 0
    /\ ncalls = 0
    /\ srcLine = << >>
    /\ yyls = << 1 >>
    /\ tokLine = 1
    /\ nexec = 0
    /\ ret = 0

Next == yylex \/ yyshift \/ yyreduce \/ yyerrlab \/ yyaccept

Spec == Init /\ [][Next]_vars


(***************************************************************************)
(* The core driven through its entry points by an arbitrary caller: the    *)
(* constructors, called with any arguments, then execute_list on the tree  *)
(* built.  The caller keeps the nodes it has not yet attached to a parent  *)
(* on a stack (yyvs) and attaches the topmost ones, so every heap is a     *)
(* forest; a child may also be NULL.  A run starts from one of the forests *)
(* of Seeds and makes up to MaxCalls further constructor calls.            *)
(***************************************************************************)
BIntVals == {0, 1}
BVarIds == {0}
BOps == {"/", "%"}
BKinds == {N_UNKNOWN, N_IF}

\* a forest under construction: the heap and the roots held, oldest first
Forest(h, roots) == [h |-> h, roots |-> roots]
Empty == Forest(<< >>, << >>)
\* push a leaf
fInt(f, v) == LET h == new_int_node(f.h, v) IN Forest(h, Append(f.roots, Len(h)))
fVar(f, id) == LET h == new_var_node(f.h, id) IN Forest(h, Append(f.roots, Len(h)))
\* replace the topmost k roots by a node having them as children
Held(f, k) == f.roots[Len(f.roots) - k]
fDone(f, k, h) == Forest(h, Append(SubSeq(f.roots, 1, Len(f.roots) - k), Len(h)))
fOp(f, op) == fDone(f, 2, new_op_node(f.h, op, Held(f, 1), Held(f, 0)))
fDecl(f) == fDone(f, 2, new_decl_node(f.h, Held(f, 1), Held(f, 0)))
fAssign(f) == fDone(f, 2, new_assign_node(f.h, Held(f, 1), Held(f, 0)))
fPrint(f) == fDone(f, 1, new_print_node(f.h, Held(f, 0)))
fIf(f) == fDone(f, 3, new_if_node(f.h, Held(f, 2), Held(f, 1), Held(f, 0)))
fList(f) == fDone(f, 2, new_stmtlist_node(f.h, Held(f, 1), Held(f, 0)))
fKind(f, k) == fDone(f, 2, new_node_kind(f.h, "node", k, Held(f, 1), Held(f, 0)))
\* a declaration or assignment whose variable slot is NULL
fDeclNull(f) == fDone(f, 1, new_decl_node(f.h, NULL, Held(f, 0)))
fAssignNull(f) == fDone(f, 1, new_assign_node(f.h, NULL, Held(f, 0)))

\* a forest written in postfix: each step pushes a leaf or replaces the
\* topmost roots by their parent
Step(f, c) ==
    CASE c[1] = "int" -> fInt(f, c[2])
      [] c[1] = "var" -> fVar(f, c[2])
      [] c[1] = "op" -> fOp(f, c[2])
      [] c[1] = "kind" -> fKind(f, c[2])
      [] c[1] = "dec" -> fDecl(f)
      [] c[1] = "assign" -> fAssign(f)
      [] c[1] = "print" -> fPrint(f)
      [] c[1] = "if" -> fIf(f)
      [] c[1] = "list" -> fList(f)
      [] c[1] = "dec0" -> fDeclNull(f)
      [] c[1] = "assign0" -> fAssignNull(f)

RECURSIVE Postfix(_)
Postfix(cs) ==
    IF cs = << >> THEN Empty ELSE Step(Postfix(SubSeq(cs, 1, Len(cs) - 1)), cs[Len(cs)])

I(v) == << "int", v >>
X(id) == << "var", id >>
O(op) == << "op", op >>
K(k) == << "kind", k >>
C(name) == << name, 0 >>
Print9 == << I(9), C("print") >>

Seeds ==
    { Empty,
      \* dec(INTEGER(0), 1)  print(9)
      Postfix(<< I(0), I(1), C("dec") >> \o Print9),
      \* assign(print(2), 1)  print(9)
      Postfix(<< I(2), C("print"), I(1), C("assign") >> \o Print9),
      \* dec(NULL, 1)  print(9)
      Postfix(<< I(1), C("dec0") >> \o Print9),
      \* assign(NULL, 1)  print(9)
      Postfix(<< I(1), C("assign0") >> \o Print9),
      \* an if whose right child is a print node, not a branches node;  print(9)
      Postfix(<< I(1), I(3), C("print"), K(N_IF) >> \o Print9),
      \* if (1) print(1) else print(2);  print(9)
      Postfix(<< I(1), I(1), C("print"), I(2), C("print"), C("if") >> \o Print9),
      \* if (x) list(print(1 / 0), x = 4) else list(int x = 5, print(x))
      Postfix(<< X(0),
                 I(1), I(0), O("/"), C("print"), X(0), I(4), C("assign"), C("list"),
                 X(0), I(5), C("dec"), X(0), C("print"), C("list"),
                 C("if") >>),
      \* print(5 / 0)  print(9)
      Postfix(<< I(5), I(0), O("/"), C("print") >> \o Print9),
      \* print(3 % 2)  print(<a print node>)  <an int node as a statement>
      Postfix(<< I(3), I(2), O("%"), C("print"), I(1), C("print"), C("print"), I(7) >>),
      \* dec(VAR(0), 3)  assign(VAR(0), VAR(0) + 4)  print(VAR(0))
      Postfix(<< X(0), I(3), C("dec"), X(0), X(0), I(4), O("+"), C("assign"),
                 X(0), C("print") >>),
      \* dec(VAR(256), 1)  print(VAR(256))
      Postfix(<< X(256), I(1), C("dec"), X(256), C("print") >>),
      \* assign(VAR(-1), 2)  print(VAR(-1) + VAR(255))
      Postfix(<< X(-1), I(2), C("assign"), X(-1), X(255), O("+"), C("print") >>),
      \* print(INT_MAX + 1)  print(9)
      Postfix(<< I(INT_MAX), I(1), O("+"), C("print") >> \o Print9)
    }

\* the ways to fill k child slots: NULL or the topmost held nodes, in order
Args(k) ==
    LET held == [i \in DOMAIN yyvs |-> yyvs[i].node]
        NonNull(x) == x # NULL
    IN { a \in [1..k -> {NULL} \cup {held[i] : i \in DOMAIN held}] :
           LET used == SelectSeq(a, NonNull)
           IN /\ Len(used) <= Len(held)
              /\ used = SubSeq(held, Len(held) - Len(used) + 1, Len(held)) }

NumUsed(a) == Cardinality({i \in DOMAIN a : a[i] # NULL})

\* the caller got heap h back from a constructor called with children a
Built(h, a) ==
    /\ pc = "build"
    /\ ncalls < MaxCalls
    /\ ncalls' = ncalls + 1
    /\ nodes' = h
    /\ srcLine' = srcLine \o [i \in 1..(Len(h) - Len(nodes)) |-> yylineno]
    /\ yyvs' = Append(Pop(yyvs, NumUsed(a)), Val(0, "", Len(h)))
    /\ UNCHANGED << execVars, build, ret, yyss, yyls, scanVars, yyerrstatus, pc,
                    script, nexec >>

BuildInt == \E v \in BIntVals : Built(new_int_node(nodes, v), << >>)

BuildVar == \E id \in BVarIds : Built(new_var_node(nodes, id), << >>)

BuildOp ==
    \E op \in BOps, a \in Args(2) : Built(new_op_node(nodes, op, a[1], a[2]), a)

BuildDecl == \E a \in Args(2) : Built(new_decl_node(nodes, a[1], a[2]), a)

BuildAssign == \E a \in Args(2) : Built(new_assign_node(nodes, a[1], a[2]), a)

BuildPrint == \E a \in Args(1) : Built(new_print_node(nodes, a[1]), a)

BuildIf == \E a \in Args(3) : Built(new_if_node(nodes, a[1], a[2], a[3]), a)

BuildStmtList ==
    \E a \in Args(2) : Built(new_stmtlist_node(nodes, a[1], a[2]), a)

\* new_node_kind called directly
BuildKind ==
    \E k \in BKinds, a \in Args(2) :
        Built(new_node_kind(nodes, "node", k, a[1], a[2]), a)

\* execute_list(root) on the node the caller holds on top (NULL if none)
Execute ==
    /\ pc = "build"
    /\ LET root == IF Len(yyvs) = 0 THEN NULL ELSE Top(yyvs).node
           st == execute_list(root, State(sym, chan, halted))
       IN /\ sym' = st.sym
          /\ chan' = st.chan
          /\ halted' = st.halted
    /\ pc' = "ran"
    /\ nexec' = nexec + 1
    /\ UNCHANGED << nodes, build, ret, stackVars, scanVars, yyerrstatus, script,
                    ncalls, srcLine >>

InitTree ==
    /\ \E f \in Seeds :
         /\ nodes = f.h
         /\ yyvs = [i \in DOMAIN f.roots |-> Val(0, "", f.roots[i])]
         /\ srcLine = [i \in DOMAIN f.h |-> 1]
    /\ sym = ZeroSym
    /\ chan = << >>
    /\ halted = FALSE
    /\ build \in Builds
    /\ yyss = << >>
    /\ yychar = YYEMPTY
    /\ yylval = NoVal
    /\ yylineno = 1
    /\ yyerrstatus = 0
    /\ pc = "build"
    /\ script = << >>
    /\ ntok = 0
    /\ ncalls = 0
    /\ yyls = << >>
    /\ tokLine = 1
    /\ nexec = 0
    /\ ret = 0

NextTree ==
    \/ BuildInt \/ BuildVar \/ BuildOp \/ BuildDecl \/ BuildAssign
    \/ BuildPrint \/ BuildIf \/ BuildStmtList \/ BuildKind \/ Execute

SpecTree == InitTree /\ [][NextTree]_vars


(***************************************************************************)
(* eval_expr and execute_stmt called once, by a direct caller, on one tree *)
(* and one content of the store: every operator applied to every pair of   *)
(* EVals, and trees that nest operators, read variables or put a node of   *)
(* the wrong kind where an expression or a statement is expected.          *)
(***************************************************************************)
EOps == {"+", "-", "*", "/", "==", "!=", "<=", ">=", "<", ">"}
EVals == {INT_MIN, -1, 0, 1, 2, 3, INT_MAX}

\* <l> op <r>, "%" being an operator eval_expr does not know
BinaryTrees ==
    { Postfix(<< I(l), I(r), O(op) >>) : op \in EOps \cup {"%"}, l, r \in EVals }

\* 1 / 0
DivZero == << I(1), I(0), O("/") >>

NestedTrees ==
    { \* (1 / 0) op (2 % 3) and (2 % 3) op (1 / 0), for every operator
      Postfix(DivZero \o << I(2), I(3), O("%"), O(op) >>) : op \in EOps }
    \cup
    { Postfix(<< I(2), I(3), O("%") >> \o DivZero \o << O(op) >>) : op \in EOps }
    \cup
    { \* (1 / 0) / 0,  (1 / 0) * 0,  0 * (1 / 0),  (1 / 0) + (2 / 0)
      Postfix(DivZero \o << I(0), O("/") >>),
      Postfix(DivZero \o << I(0), O("*") >>),
      Postfix(<< I(0) >> \o DivZero \o << O("*") >>),
      Postfix(DivZero \o << I(2), I(0), O("/"), O("+") >>),
      \* ((1 / 0) - (2 / 0)) * ((3 / 0) + 4)
      Postfix(DivZero \o << I(2), I(0), O("/"), O("-"), I(3), I(0), O("/"),
                            I(4), O("+"), O("*") >>),
      \* x,  x + var[255],  var[256] - var[-1],  (x * x) / (var[255] + 3)
      Postfix(<< X(0) >>),
      Postfix(<< X(0), X(255), O("+") >>),
      Postfix(<< X(256), X(-1), O("-") >>),
      Postfix(<< X(0), X(0), O("*"), X(255), I(3), O("+"), O("/") >>),
      \* (0 - 7) / 2,  7 / (0 - 2),  (0 - 7) / (0 - 2),  7 / 2,  -7 / 2,  7 / -2
      Postfix(<< I(0), I(7), O("-"), I(2), O("/") >>),
      Postfix(<< I(7), I(0), I(2), O("-"), O("/") >>),
      Postfix(<< I(0), I(7), O("-"), I(0), I(2), O("-"), O("/") >>),
      Postfix(<< I(7), I(2), O("/") >>),
      Postfix(<< I(-7), I(2), O("/") >>),
      Postfix(<< I(7), I(-2), O("/") >>),
      \* no tree at all, and a literal
      Empty,
      Postfix(<< I(7) >>) }

\* nodes that are neither expressions nor, some of them, statements
WrongKindTrees ==
    { \* print(1),  int x = 1,  x = 2,  a list,  an if
      Postfix(<< I(1), C("print") >>),
      Postfix(<< X(0), I(1), C("dec") >>),
      Postfix(<< X(0), I(2), C("assign") >>),
      Postfix(<< I(1), C("print"), I(2), C("print"), C("list") >>),
      Postfix(<< I(1), I(1), C("print"), I(2), C("print"), C("if") >>),
      \* print(1) + 2,  3 / (x = 0),  print(print(4) * (1 / 0))
      Postfix(<< I(1), C("print"), I(2), O("+") >>),
      Postfix(<< I(3), X(0), I(0), C("assign"), O("/") >>),
      Postfix(<< I(4), C("print") >> \o DivZero \o << O("*"), C("print") >>) }
    \cup
    { \* a node of kind k made with new_node_kind directly
      Postfix(<< I(1), I(2), K(k) >>) : k \in {N_UNKNOWN, N_BRANCHES, 10, -1} }

EvalTrees == BinaryTrees \cup NestedTrees \cup WrongKindTrees

EvalStores == { ZeroSym, [ZeroSym EXCEPT ![0] = 5, ![255] = -3] }

\* ret = eval_expr(root)
CallEval ==
    /\ pc = "build"
    /\ LET root == IF Len(yyvs) = 0 THEN NULL ELSE Top(yyvs).node
           e == eval_expr(root, State(sym, chan, halted))
       IN /\ sym' = e.st.sym
          /\ chan' = e.st.chan
          /\ halted' = e.st.halted
          /\ ret' = e.val
    /\ pc' = "evaluated"
    /\ UNCHANGED << nodes, build, stackVars, scanVars, yyerrstatus, script,
                    ncalls, srcLine, nexec >>

\* execute_stmt(root)
CallExecStmt ==
    /\ pc = "build"
    /\ LET root == IF Len(yyvs) = 0 THEN NULL ELSE Top(yyvs).node
           st == execute_stmt(root, State(sym, chan, halted))
       IN /\ sym' = st.sym
          /\ chan' = st.chan
          /\ halted' = st.halted
    /\ pc' = "ran"
    /\ UNCHANGED << nodes, build, ret, stackVars, scanVars, yyerrstatus,
                    script, ncalls, srcLine, nexec >>

InitEval ==
    /\ \E f \in EvalTrees :
         /\ nodes = f.h
         /\ yyvs = [i \in DOMAIN f.roots |-> Val(0, "", f.roots[i])]
         /\ srcLine = [i \in DOMAIN f.h |-> 1]
    /\ sym \in EvalStores
    /\ chan = << >>
    /\ halted = FALSE
    /\ build \in Builds
    /\ yyss = << >>
    /\ yychar = YYEMPTY
    /\ yylval = NoVal
    /\ yylineno = 1
    /\ yyerrstatus = 0
    /\ pc = "build"
    /\ script = << >>
    /\ ntok = 0
    /\ ncalls = 0
    /\ yyls = << >>
    /\ tokLine = 1
    /\ nexec = 0
    /\ ret = 0

NextEval == CallEval \/ CallExecStmt

SpecEval == InitEval /\ [][NextEval]_vars


(***************************************************************************)
(* Reading the log and the heap.                                           *)
(***************************************************************************)
IsOut(r) == r.ch = "out"
IsTree(r) == r.ch = "tree"
IsErr(r) == r.ch = "err"
IsSep(r) == r.ch = "tree" /\ r.text = Separator

\* the three files
yyout == SelectSeq(chan, IsOut)
yytree == SelectSeq(chan, IsTree)
yyError == SelectSeq(chan, IsErr)

NodesOf(recs) == [i \in DOMAIN recs |-> recs[i].node]

\* the statements execute_stmt was entered for, in order: one trace block each
Executed == NodesOf(SelectSeq(chan, IsSep))

RECURSIVE Subtree(_)
Subtree(n) ==
    IF n = NULL THEN {}
    ELSE {n} \cup Subtree(nodes[n].left) \cup Subtree(nodes[n].right)

\* the parser creates a node when the last token of its construct is reduced,
\* so construct a starts before construct b in the source text iff a contains
\* b, or they are disjoint and a was created first
SrcBefore(a, b) ==
    /\ a # b
    /\ \/ b \in Subtree(a)
       \/ a \notin Subtree(b) /\ a < b

InOrder(seq) ==
    \A i, j \in DOMAIN seq : i < j => SrcBefore(seq[i], seq[j])

\* the statements of a list, oldest first (a bare statement is a list of one)
RECURSIVE StmtsOf(_)
StmtsOf(list) ==
    IF list = NULL THEN << >>
    ELSE IF nodes[list].kind = N_STMTLIST
         THEN StmtsOf(nodes[list].left) \o
              (IF nodes[list].right = NULL THEN << >> ELSE << nodes[list].right >>)
         ELSE << list >>

\* the tree handed to execute_list in this run
Root ==
    IF pc \in {"accepted", "aborted", "parse"}
    THEN (IF nexec > 0 /\ Len(yyvs) >= 2 THEN yyvs[2].node ELSE NULL)
    ELSE (IF Len(yyvs) = 0 THEN NULL ELSE Top(yyvs).node)

(***************************************************************************)
(* C1.  If yyparse fails (reports a syntax error and returns 1), nothing   *)
(* was executed in that run: no effects record, no trace block and no      *)
(* symbol-store write.                                                     *)
(* Violated: the reduction of rule 2 (program: stmts), which calls         *)
(* execute_list, is the default reduction of state 2 and is made on ANY    *)
(* lookahead that state 2 cannot shift; the lookahead is rejected only     *)
(* afterwards, in state 1.                                                 *)
(***************************************************************************)
C1_NothingExecutedWhenParseFails ==
    pc = "aborted" => yyout = << >> /\ yytree = << >> /\ sym = ZeroSym

(***************************************************************************)
(* C2.  Statements execute in source order whatever the nesting: the trace *)
(* blocks and the effects records follow the order in which their          *)
(* statements start in the source, the statements of a taken branch coming *)
(* right at the position of their if.                                      *)
(***************************************************************************)
C2_SourceOrder == InOrder(Executed) /\ InOrder(NodesOf(yyout))

\* a run that executed an if, a statement inside it and a statement after it
C2_Witness ==
    /\ pc = "accepted"
    /\ Len(yyout) >= 3
    /\ \E i, j \in DOMAIN Executed :
         /\ i + 1 < j
         /\ nodes[Executed[i]].kind = N_IF
         /\ Executed[i + 1] \in Subtree(Executed[i])
         /\ Executed[j] \notin Subtree(Executed[i])

(***************************************************************************)
(* Executing one statement from the current store.                         *)
(***************************************************************************)
Range(seq) == { seq[i] : i \in DOMAIN seq }

\* the executor about to run with the store as it is now and nothing logged
Now == State(sym, << >>, FALSE)

\* an if statement with a branches node in its right slot
IsIf(s) ==
    /\ nodes[s].kind = N_IF
    /\ nodes[s].right # NULL
    /\ nodes[nodes[s].right].kind = N_BRANCHES

ThenList(s) == nodes[nodes[s].right].left
ElseList(s) == nodes[nodes[s].right].right

\* the condition of s evaluated in the current store
Cond(s) == eval_expr(nodes[s].left, Now)

\* the branch the condition selects and the other one
Taken(s) == IF Cond(s).val # 0 THEN ThenList(s) ELSE ElseList(s)
Untaken(s) == IF Cond(s).val # 0 THEN ElseList(s) ELSE ThenList(s)

\* the records of a log that show a statement at work: its trace block's
\* separator, its effects and its diagnostics
IsActivity(r) == IsOut(r) \/ IsErr(r) \/ IsSep(r)

(***************************************************************************)
(* C3.  Executing an if statement executes exactly one branch, the then    *)
(* list iff the condition is nonzero: the store, the effects and the       *)
(* diagnostics it leaves are those of the condition followed by the        *)
(* selected list alone, every statement of the selected list is entered,   *)
(* and no statement or expression of the other list is entered, writes,    *)
(* or emits an effects or diagnostics record.                              *)
(***************************************************************************)
C3_ExactlyOneBranch ==
    \A s \in DOMAIN nodes :
        IsIf(s) /\ ~Cond(s).st.halted =>
            LET r == execute_stmt(s, Now)
                t == execute_list(Taken(s), Now)
            IN /\ r.sym = t.sym
               /\ r.halted = t.halted
               /\ SelectSeq(r.chan, IsOut) = SelectSeq(t.chan, IsOut)
               /\ SelectSeq(r.chan, IsErr) =
                      SelectSeq(Cond(s).st.chan, IsErr) \o SelectSeq(t.chan, IsErr)
               /\ \A i \in DOMAIN r.chan :
                      IsActivity(r.chan[i]) =>
                          r.chan[i].node \notin Subtree(Untaken(s))
               /\ ~r.halted =>
                      \A x \in Range(StmtsOf(Taken(s))) :
                          \E i \in DOMAIN r.chan :
                              IsSep(r.chan[i]) /\ r.chan[i].node = x

\* a run executed an if with two branches: the else list wrote the store and
\* printed, the then list left no record of activity
C3_Witness ==
    /\ pc = "ran"
    /\ sym # ZeroSym
    /\ \E s \in Range(Executed) :
         /\ IsIf(s)
         /\ ThenList(s) # NULL
         /\ \E i \in DOMAIN chan :
              IsOut(chan[i]) /\ chan[i].node \in Subtree(ElseList(s))
         /\ \A i \in DOMAIN chan :
              IsActivity(chan[i]) => chan[i].node \notin Subtree(ThenList(s))

(***************************************************************************)
(* C4.  As claimed: once an if statement has executed, a branch of it none *)
(* of whose statements was entered appears on no channel; in particular no *)
(* label of a node of that branch is on the trace.                         *)
(* Violated: the trace block of the if statement itself is the rendering   *)
(* of its whole subtree, both branches included.                           *)
(***************************************************************************)
C4_UntakenNeverOnAnyChannel ==
    \A s \in Range(Executed) :
        IsIf(s) =>
            \A b \in {ThenList(s), ElseList(s)} :
                (\A i \in DOMAIN chan :
                     IsSep(chan[i]) => chan[i].node \notin Subtree(b))
                => \A i \in DOMAIN chan : chan[i].node \notin Subtree(b)

\* the position of the first separator of a log (0 if there is none)
FirstSep(log) ==
    IF \E i \in DOMAIN log : IsSep(log[i])
    THEN CHOOSE i \in DOMAIN log :
             IsSep(log[i]) /\ \A j \in 1..(i - 1) : ~IsSep(log[j])
    ELSE 0

(***************************************************************************)
(* C4, amended.  When an if statement executes, no statement of the        *)
(* untaken branch gets a trace block of its own and nothing of that branch *)
(* reaches the effects or the diagnostics; the labels of its nodes are on  *)
(* the trace exactly once each, inside the one block that renders the if   *)
(* statement itself, which is the rendering of the if's whole subtree.     *)
(***************************************************************************)
C4_UntakenOnlyInsideIfBlock ==
    \A s \in DOMAIN nodes :
        IsIf(s) /\ ~Cond(s).st.halted =>
            LET log == execute_stmt(s, Now).chan
                k == FirstSep(log)
            IN /\ k > 1
               /\ log[k].node = s
               /\ SubSeq(log, 1, k - 1) = Append(printTreeVertical(s, 0), BlankLine)
               /\ \A i \in DOMAIN log :
                      log[i].node \in Subtree(Untaken(s)) =>
                          i < k /\ IsTree(log[i]) /\ ~IsSep(log[i])
               /\ \A x \in Subtree(Untaken(s)) :
                      Cardinality({i \in DOMAIN log : log[i].node = x}) = 1

\* a run executed an if whose then list printed and whose else list was only
\* rendered, inside the block of the if
C4_Witness ==
    /\ pc = "accepted"
    /\ \E s \in Range(Executed) :
         /\ IsIf(s)
         /\ \E i \in DOMAIN chan :
              IsOut(chan[i]) /\ chan[i].node \in Subtree(ThenList(s))
         /\ \E i \in DOMAIN chan :
              IsTree(chan[i]) /\ chan[i].node \in Subtree(ElseList(s))
         /\ \A i \in DOMAIN chan :
              IsActivity(chan[i]) => chan[i].node \notin Subtree(ElseList(s))

(***************************************************************************)
(* The statements a run executes, counted from the tree: a statement       *)
(* reached by execute_list counts for one, and an if statement adds the    *)
(* statements of the list its condition selects.                           *)
(***************************************************************************)
RECURSIVE NumStmt(_, _), NumList(_, _)
NumStmt(s, st) ==
    IF s = NULL THEN 0
    ELSE 1 + (IF IsIf(s)
              THEN NumList(IF eval_expr(nodes[s].left, st).val # 0
                           THEN ThenList(s) ELSE ElseList(s), st)
              ELSE IF nodes[s].kind = N_STMTLIST THEN NumList(s, st)
              ELSE 0)

NumList(list, st) ==
    IF list = NULL THEN 0
    ELSE IF nodes[list].kind = N_STMTLIST
         THEN NumList(nodes[list].left, st)
              + NumStmt(nodes[list].right, execute_list(nodes[list].left, st))
         ELSE NumStmt(list, st)

\* the blocks of the statements of seq, one after the other
RECURSIVE Blocks(_)
Blocks(seq) ==
    IF seq = << >> THEN << >>
    ELSE Blocks(SubSeq(seq, 1, Len(seq) - 1))
         \o print_tree_header(seq[Len(seq)], State(sym, << >>, FALSE)).chan

(***************************************************************************)
(* C5.  The trace holds exactly one block (one separator) per executed     *)
(* statement: nothing before the program is executed; afterwards as many   *)
(* blocks as statements executed, no statement having two, each block the  *)
(* rendering of its statement; the statements of an untaken branch add     *)
(* none (if (1 == 2): print(1); end print(7); leaves two blocks).          *)
(***************************************************************************)
C5_OneBlockPerExecutedStatement ==
    /\ nexec = 0 => yytree = << >>
    /\ nexec > 0 /\ ~halted =>
           Len(Executed) = NumList(Root, State(ZeroSym, << >>, FALSE))
    /\ \A i, j \in DOMAIN Executed : Executed[i] = Executed[j] => i = j
    /\ yytree = Blocks(Executed)
    /\ script = IfNotTakenScript /\ pc = "accepted" => Len(Executed) = 2

\* a run executed an if whose then list, holding a statement, was not taken,
\* and one more statement after the if
C5_Witness ==
    /\ pc = "accepted"
    /\ Len(Executed) = 2
    /\ \E s \in Range(Executed) :
         /\ IsIf(s)
         /\ Len(StmtsOf(ThenList(s))) >= 1
         /\ \A x \in Range(StmtsOf(ThenList(s))) : x \notin Range(Executed)

(***************************************************************************)
(* Reading records.                                                        *)
(***************************************************************************)
Texts(recs) == [i \in DOMAIN recs |-> recs[i].text]

\* the effects and diagnostics of a log, in the order written
Reported(log) == SelectSeq(log, LAMBDA r : IsOut(r) \/ IsErr(r))

IsDivision(n) == nodes[n].kind = N_OP /\ nodes[n].label = "/"

\* the diagnostics record of a division by zero found at node n
DivByZeroRec(n) ==
    Rec("err", "Error: Division by zero at line " \o ToString(yylineno),
        0, yylineno, n)

(***************************************************************************)
(* C6.  Division by zero does not abort the program.  Evaluating a `/`     *)
(* node whose right operand evaluates to 0 adds exactly one "Division by   *)
(* zero" diagnostics record after those of its operands, yields 0, writes  *)
(* nothing and does not stop the run; a print of such a division emits     *)
(* "Print: 0"; once the program has run every statement of its top-level   *)
(* list was executed; and print(5 / 0); print(9); reports the error, then  *)
(* "Print: 0", then "Print: 9".                                            *)
(***************************************************************************)
C6_DivisionByZeroContinues ==
    /\ \A n \in DOMAIN nodes :
           IsDivision(n) =>
               LET l == eval_expr(nodes[n].left, Now)
                   r == eval_expr(nodes[n].right, l.st)
                   e == eval_expr(n, Now)
               IN ~r.st.halted /\ r.val = 0 =>
                      /\ e.val = 0
                      /\ ~e.st.halted
                      /\ e.st.sym = sym
                      /\ e.st.chan = Append(r.st.chan, DivByZeroRec(n))
    /\ \A p \in DOMAIN nodes :
           /\ nodes[p].kind = N_PRINT
           /\ nodes[p].left # NULL
           /\ IsDivision(nodes[p].left)
           /\ eval_expr(nodes[nodes[p].left].right, Now).val = 0
           => LET log == execute_stmt(p, Now).chan
              IN /\ log[Len(log)] = Rec("out", "Print: 0", 0, 0, p)
                 /\ log[Len(log) - 1] = DivByZeroRec(nodes[p].left)
    /\ nexec > 0 => /\ ~halted
                    /\ \A x \in Range(StmtsOf(Root)) : x \in Range(Executed)
    /\ script = DivByZeroScript /\ pc = "accepted" =>
           Texts(Reported(chan)) =
               << "Error: Division by zero at line " \o ToString(yylineno),
                  "Print: 0", "Print: 9" >>

\* a run reported a division by zero, printed 0 for it and then executed a
\* later statement, which printed
C6_Witness ==
    /\ pc = "accepted"
    /\ \E i, j \in DOMAIN chan :
         /\ i + 1 < j
         /\ chan[i].node # NULL
         /\ IsDivision(chan[i].node)
         /\ chan[i] = DivByZeroRec(chan[i].node)
         /\ chan[i + 1].text = "Print: 0"
         /\ nodes[chan[i + 1].node].left = chan[i].node
         /\ IsOut(chan[j])
         /\ chan[j].num = 9

\* the tree can fail only in the ways the error taxonomy lists: every
\* variable id is inside the store and the literals are too small to overflow
ListedFailuresOnly ==
    \A n \in DOMAIN nodes :
        /\ nodes[n].kind = N_VAR => nodes[n].var_id \in 0..(SymSize - 1)
        /\ nodes[n].kind = N_INT => nodes[n].int_value \in 0..9

(***************************************************************************)
(* C7.  As claimed: a single statement's failure never aborts the rest of  *)
(* the program.  For every tree handed to execute_list, malformed ones     *)
(* included, the run reaches its end and every statement of the list was   *)
(* executed, whatever the statements before it did.                        *)
(* Violated: a declaration or an assignment whose left side is missing     *)
(* (NULL) makes execute_stmt read varNode->kind through a null pointer;    *)
(* a build that traps there is killed and executes no later statement.     *)
(***************************************************************************)
C7_FailureNeverAbortsTheRest ==
    pc = "ran" /\ ListedFailuresOnly =>
        /\ ~halted
        /\ \A x \in Range(StmtsOf(Root)) : x \in Range(Executed)

\* the messages of the diagnostics
Messages ==
    { "syntax error", "Division by zero", "Unknown operator in eval_expr",
      "eval_expr: expected expression node",
      "Declaration left side is not a variable",
      "Assignment left side is not a variable", "If branches malformed",
      "Unknown statement kind in execute_stmt" }

(***************************************************************************)
(* C8.  As claimed: every diagnostics record reads "Error: <message> at    *)
(* line <n>" with n the source line of the offending construct (for a      *)
(* syntax error, the line of the rejected token), so that two runtime      *)
(* conditions raised by constructs on different lines carry different      *)
(* line numbers.                                                           *)
(* Violated: yyerror prints yylineno, the line the scanner has reached;    *)
(* the program is executed after its last token was read, so every runtime *)
(* record carries the line the scanner stopped at, whatever line its       *)
(* construct is on.                                                        *)
(***************************************************************************)
C8_LineOfOffendingConstruct ==
    /\ \A i \in DOMAIN chan :
           IsErr(chan[i]) =>
               /\ \E m \in Messages :
                      chan[i].text =
                          "Error: " \o m \o " at line " \o ToString(chan[i].num)
               /\ chan[i].node # NULL => chan[i].num = srcLine[chan[i].node]
               /\ chan[i].node = NULL => chan[i].num = tokLine
    /\ \A i, j \in DOMAIN chan :
           /\ IsErr(chan[i]) /\ IsErr(chan[j])
           /\ chan[i].node # NULL /\ chan[j].node # NULL
           /\ srcLine[chan[i].node] # srcLine[chan[j].node]
           => chan[i].num # chan[j].num

(***************************************************************************)
(* Reads and writes of the store, as the log shows them.                   *)
(***************************************************************************)
InStore(id) == id \in 0..(SymSize - 1)

\* record r is the effect of a declaration or assignment that stored to id
WritesTo(r, id) ==
    /\ IsOut(r)
    /\ nodes[r.node].kind \in {N_DECL, N_ASSIGN}
    /\ nodes[r.node].left # NULL
    /\ nodes[nodes[r.node].left].var_id = id

\* record r is the effect of print(<variable id>)
PrintsVar(r, id) ==
    /\ IsOut(r)
    /\ nodes[r.node].kind = N_PRINT
    /\ nodes[r.node].left # NULL
    /\ nodes[nodes[r.node].left].kind = N_VAR
    /\ nodes[nodes[r.node].left].var_id = id

\* the positions before k of the records of writes to id
WritesBefore(id, k) == { j \in 1..(k - 1) : WritesTo(chan[j], id) }

Max(S) == CHOOSE x \in S : \A y \in S : y <= x

VarIds == { nodes[n].var_id : n \in { m \in DOMAIN nodes : nodes[m].kind = N_VAR } }

(***************************************************************************)
(* C9.  The store is all zero when the run starts, and reading a variable  *)
(* no executed declaration or assignment has written yields 0 without any  *)
(* diagnostics: evaluating a reference to such an id in [0, 256) returns 0 *)
(* and logs nothing, a print of it emitted "Print: 0", and print(x); alone *)
(* leaves "Print: 0" and no diagnostics.                                   *)
(***************************************************************************)
C9_UnwrittenReadsZero ==
    /\ nexec = 0 => \A id \in 0..(SymSize - 1) : sym[id] = 0
    /\ \A n \in DOMAIN nodes :
           /\ nodes[n].kind = N_VAR
           /\ InStore(nodes[n].var_id)
           /\ WritesBefore(nodes[n].var_id, Len(chan) + 1) = {}
           => eval_expr(n, Now) = [val |-> 0, st |-> Now]
    /\ \A k \in DOMAIN chan : \A id \in VarIds :
           /\ InStore(id)
           /\ PrintsVar(chan[k], id)
           /\ WritesBefore(id, k) = {}
           => /\ chan[k].text = "Print: 0"
              /\ chan[k].num = 0
              /\ \A i \in DOMAIN chan :
                     IsErr(chan[i]) => chan[i].node \notin Subtree(chan[k].node)
    /\ script = PrintUnsetScript /\ pc = "accepted" =>
           Texts(Reported(chan)) = << "Print: 0" >>

\* a run wrote one variable and then printed another, not written yet, as 0
C9_Witness ==
    /\ pc = "accepted"
    /\ \E k \in DOMAIN chan : \E id, other \in VarIds :
         /\ PrintsVar(chan[k], id)
         /\ chan[k].num = 0
         /\ WritesBefore(id, k) = {}
         /\ \E j \in WritesBefore(other, k) : chan[j].num # 0

(***************************************************************************)
(* C10.  Write-then-read round trip.  Once an executed declaration or      *)
(* assignment has stored v at id, a reference to id evaluates to the value *)
(* of the last such write, until the next one: the store holds it, every   *)
(* print of the variable emitted the value of the last write before it,    *)
(* and int a = 3; a = a + 4; print(a); emits exactly                       *)
(* "Declared var[0] = 3", "Assigned var[0] = 7", "Print: 7" in that order. *)
(***************************************************************************)
C10_WriteThenRead ==
    /\ \A n \in DOMAIN nodes :
           /\ nodes[n].kind = N_VAR
           /\ InStore(nodes[n].var_id)
           /\ WritesBefore(nodes[n].var_id, Len(chan) + 1) # {}
           => eval_expr(n, Now).val =
                  chan[Max(WritesBefore(nodes[n].var_id, Len(chan) + 1))].num
    /\ \A k \in DOMAIN chan : \A id \in VarIds :
           /\ InStore(id)
           /\ PrintsVar(chan[k], id)
           /\ WritesBefore(id, k) # {}
           => chan[k].num = chan[Max(WritesBefore(id, k))].num
    /\ script = RoundTripScript /\ pc = "accepted" =>
           Texts(yyout) =
               << "Declared var[0] = 3", "Assigned var[0] = 7", "Print: 7" >>

\* a run wrote a variable twice with different values and then printed the
\* second one
C10_Witness ==
    /\ pc = "accepted"
    /\ \E i, j, k \in DOMAIN chan : \E id \in VarIds :
         /\ i < j /\ j < k
         /\ WritesTo(chan[i], id)
         /\ j = Max(WritesBefore(id, k))
         /\ chan[i].num # chan[j].num
         /\ PrintsVar(chan[k], id)
         /\ chan[k].num = chan[j].num

(***************************************************************************)
(* Binary operators applied to evaluated operands.                         *)
(***************************************************************************)
IsOp(n, labels) == nodes[n].kind = N_OP /\ nodes[n].label \in labels

\* the operands of n evaluated from the current store, left then right
LeftOf(n) == eval_expr(nodes[n].left, Now)
RightOf(n) == eval_expr(nodes[n].right, LeftOf(n).st)

\* L + R, L - R, L * R are values of type int
SumFits(L, R) == IF R >= 0 THEN L <= INT_MAX - R ELSE L >= INT_MIN - R
DiffFits(L, R) == IF R >= 0 THEN L >= INT_MIN + R ELSE L <= INT_MAX + R
ProductFits(L, R) ==
    IF L = 0 \/ R = 0 THEN TRUE
    ELSE IF L = INT_MIN THEN R = 1
    ELSE IF R = INT_MIN THEN L = 1
    ELSE LET a == Abs(L)
             b == Abs(R)
             q == INT_MAX \div b
         IN IF (L < 0) = (R < 0) THEN a <= q
            ELSE a <= q \/ (a - 1 = q /\ INT_MAX - q * b = b - 1)

\* the relation a comparison operator stands for
Holds(op, L, R) ==
    CASE op = "==" -> L = R
      [] op = "!=" -> L # R
      [] op = "<=" -> L <= R
      [] op = ">=" -> L >= R
      [] op = "<" -> L < R
      [] op = ">" -> L > R

\* a comparison node yields 1 if its relation holds and 0 if not, and
\* reports nothing
ComparisonIsZeroOrOne(n) ==
    LET e == eval_expr(n, Now)
    IN /\ e.st = RightOf(n).st
       /\ e.val \in {0, 1}
       /\ e.val = 1 <=> Holds(nodes[n].label, LeftOf(n).val, RightOf(n).val)

(***************************************************************************)
(* C11.  As claimed: for all operand values L and R a comparison yields    *)
(* exactly 1 when its relation holds and exactly 0 otherwise, and +, -, *  *)
(* return the sum, the difference and the product of L and R.              *)
(* Violated: the operands and the result are C ints; when the sum,         *)
(* difference or product is not a value of int (INT_MAX + 1) the           *)
(* arithmetic overflows, which is undefined: the call returns another      *)
(* number or does not return.                                              *)
(***************************************************************************)
C11_ComparisonsAndArithmetic ==
    \A n \in DOMAIN nodes :
        IsOp(n, EOps \ {"/"}) /\ ~RightOf(n).st.halted =>
            LET L == LeftOf(n).val
                R == RightOf(n).val
                e == eval_expr(n, Now)
            IN CASE nodes[n].label = "+" ->
                      ~e.st.halted /\ SumFits(L, R) /\ e.val = L + R
                 [] nodes[n].label = "-" ->
                      ~e.st.halted /\ DiffFits(L, R) /\ e.val = L - R
                 [] nodes[n].label = "*" ->
                      ~e.st.halted /\ ProductFits(L, R) /\ e.val = L * R
                 [] OTHER -> ComparisonIsZeroOrOne(n)

(***************************************************************************)
(* C11, amended.  For all operand values L and R a comparison yields       *)
(* exactly 1 when its relation holds and exactly 0 otherwise; +, -, *      *)
(* return the sum, the difference and the product of L and R whenever that *)
(* number is a value of int (between -2^31 and 2^31 - 1), and report       *)
(* nothing.                                                                *)
(***************************************************************************)
C11_ComparisonsAndFittingArithmetic ==
    \A n \in DOMAIN nodes :
        IsOp(n, EOps \ {"/"}) /\ ~RightOf(n).st.halted =>
            LET L == LeftOf(n).val
                R == RightOf(n).val
                e == eval_expr(n, Now)
            IN CASE nodes[n].label = "+" ->
                      SumFits(L, R) => e = [val |-> L + R, st |-> RightOf(n).st]
                 [] nodes[n].label = "-" ->
                      DiffFits(L, R) => e = [val |-> L - R, st |-> RightOf(n).st]
                 [] nodes[n].label = "*" ->
                      ProductFits(L, R) =>
                          e = [val |-> L * R, st |-> RightOf(n).st]
                 [] OTHER -> ComparisonIsZeroOrOne(n)

\* 3 <= 3 was evaluated and gave 1
C11_Witness ==
    /\ pc = "evaluated"
    /\ ~halted
    /\ Root # NULL
    /\ IsOp(Root, {"<="})
    /\ nodes[nodes[Root].left].int_value = 3
    /\ nodes[nodes[Root].right].int_value = 3
    /\ ret = 1

(***************************************************************************)
(* C12.  An if without else whose condition evaluates to 0 is a no-op:     *)
(* executing it writes its trace block and what evaluating the condition   *)
(* reports, and nothing else: no effects record, no other diagnostics, no  *)
(* change of any slot of the store, no stop; the next statement executes   *)
(* normally (if (1 / 0 == 1): x = 3; end print(x); reports the division    *)
(* and prints 0).                                                          *)
(***************************************************************************)
C12_IfWithoutElseIsNoOp ==
    /\ \A s \in DOMAIN nodes :
           IsIf(s) /\ ElseList(s) = NULL /\ ~Cond(s).st.halted /\ Cond(s).val = 0
           => LET r == execute_stmt(s, Now)
              IN /\ r.sym = sym
                 /\ ~r.halted
                 /\ Reported(r.chan) = Cond(s).st.chan
                 /\ SelectSeq(r.chan, IsTree) = Blocks(<< s >>)
    /\ \A i \in DOMAIN Executed :
           LET s == Executed[i]
           IN /\ IsIf(s) /\ ElseList(s) = NULL
              /\ \A x \in Range(StmtsOf(ThenList(s))) : x \notin Range(Executed)
              => \A k \in DOMAIN chan :
                     /\ IsOut(chan[k]) \/ IsErr(chan[k])
                     /\ chan[k].node \in Subtree(s)
                     => /\ IsErr(chan[k])
                        /\ chan[k].node \in Subtree(nodes[s].left)
    /\ script = IfNoElseScript /\ pc = "accepted" =>
           /\ Texts(Reported(chan)) =
                  << "Error: Division by zero at line " \o ToString(yylineno),
                     "Print: 0" >>
           /\ Len(Executed) = 2

\* a run executed an if without else whose then list was skipped, the
\* condition having reported a division by zero, and then a later statement
C12_Witness ==
    /\ pc = "accepted"
    /\ sym = ZeroSym
    /\ \E i \in DOMAIN Executed :
         LET s == Executed[i]
         IN /\ IsIf(s)
            /\ ElseList(s) = NULL
            /\ ThenList(s) # NULL
            /\ \A x \in Range(StmtsOf(ThenList(s))) : x \notin Range(Executed)
            /\ \E k \in DOMAIN chan :
                 IsErr(chan[k]) /\ chan[k].node \in Subtree(nodes[s].left)
            /\ i < Len(Executed)
            /\ \E k \in DOMAIN chan :
                 IsOut(chan[k]) /\ chan[k].node = Executed[i + 1]

(***************************************************************************)
(* The effects of one statement.                                           *)
(***************************************************************************)
\* a declaration or assignment whose left side is a variable inside the store
IsStore(s) ==
    /\ nodes[s].kind \in {N_DECL, N_ASSIGN}
    /\ nodes[s].left # NULL
    /\ nodes[nodes[s].left].kind = N_VAR
    /\ InStore(nodes[nodes[s].left].var_id)

Verb(s) == IF nodes[s].kind = N_DECL THEN "Declared" ELSE "Assigned"

\* the effects records of a log written while working on statement s
OutOf(log, s) == SelectSeq(log, LAMBDA r : IsOut(r) /\ r.node = s)
ErrOf(log, s) == SelectSeq(log, LAMBDA r : IsErr(r) /\ r.node = s)

(***************************************************************************)
(* C13.  The effects channel gets exactly one line per executed            *)
(* declaration ("Declared var[<id>] = <value>"), assignment ("Assigned     *)
(* var[<id>] = <value>") and print ("Print: <value>"), <id> the target and *)
(* <value> the value just computed from the right side, which the store    *)
(* then holds at <id>; an if statement itself emits none, and neither does *)
(* a statement for which a condition is reported; in a run that reaches    *)
(* its end every line belongs to one executed statement.                   *)
(***************************************************************************)
C13_OneEffectsLinePerStatement ==
    /\ \A s \in DOMAIN nodes :
           LET r == execute_stmt(s, Now)
               v == eval_expr(nodes[s].right, Now)
               id == nodes[nodes[s].left].var_id
           IN IsStore(s) /\ ~v.st.halted =>
                  /\ Reported(r.chan) =
                         Append(v.st.chan,
                                Rec("out",
                                    Verb(s) \o " var[" \o ToString(id) \o "] = "
                                        \o ToString(v.val),
                                    0, v.val, s))
                  /\ r.sym[id] = v.val
    /\ \A s \in DOMAIN nodes :
           LET r == execute_stmt(s, Now)
               v == eval_expr(nodes[s].left, Now)
           IN nodes[s].kind = N_PRINT /\ ~v.st.halted =>
                  Reported(r.chan) =
                      Append(v.st.chan,
                             Rec("out", "Print: " \o ToString(v.val), 0,
                                 v.val, s))
    /\ \A s \in DOMAIN nodes :
           LET r == execute_stmt(s, Now)
           IN nodes[s].kind = N_IF \/ ErrOf(r.chan, s) # << >> =>
                  OutOf(r.chan, s) = << >>
    /\ pc = "ran" /\ ~halted =>
           /\ \A k \in DOMAIN chan :
                  IsOut(chan[k]) => chan[k].node \in Range(Executed)
           /\ \A s \in Range(Executed) :
                  /\ nodes[s].kind = N_PRINT \/ IsStore(s) =>
                         Len(OutOf(chan, s)) = 1
                  /\ nodes[s].kind = N_IF \/ ErrOf(chan, s) # << >> =>
                         Len(OutOf(chan, s)) = 0

\* a run executed an if, which emitted nothing itself, then a declaration
\* and a print in its else list, one line each
C13_Witness ==
    /\ pc = "ran"
    /\ ~halted
    /\ Texts(yyout) = << "Declared var[0] = 5", "Print: 5" >>
    /\ sym[0] = 5
    /\ \E s \in Range(Executed) : nodes[s].kind = N_IF /\ OutOf(chan, s) = << >>

(***************************************************************************)
(* C14.  The executor runs at most once in a run of yyparse and its run is *)
(* final: execute_list is called on the program at most once, no statement *)
(* is executed twice, and once it has returned nothing more is executed:   *)
(* the store, the effects and the trace stay as it left them.              *)
(***************************************************************************)
C14_RunsOnceAndLast ==
    /\ [](/\ nexec <= 1
          /\ \A i, j \in DOMAIN Executed : Executed[i] = Executed[j] => i = j)
    /\ [][nexec >= 1 =>
              /\ nexec' = nexec
              /\ sym' = sym
              /\ yyout' = yyout
              /\ yytree' = yytree]_vars

\* the parser accepted a program of several statements that it executed once
C14_Witness ==
    /\ pc = "accepted"
    /\ nexec = 1
    /\ yyError = << >>
    /\ Len(Executed) >= 3
    /\ Len(yyout) >= 2

(***************************************************************************)
(* Malformed statements.                                                   *)
(***************************************************************************)
\* the diagnostics record of message msg reported while working on node n
ErrRec(msg, n) ==
    Rec("err", "Error: " \o msg \o " at line " \o ToString(yylineno),
        0, yylineno, n)

\* a declaration or assignment whose left child is a node, but not a variable
BadStore(s) ==
    /\ nodes[s].kind \in {N_DECL, N_ASSIGN}
    /\ nodes[s].left # NULL
    /\ nodes[nodes[s].left].kind # N_VAR

\* an if whose right child is not a branches node
BadIf(s) == nodes[s].kind = N_IF /\ ~IsIf(s)

BadStoreMessage(s) ==
    IF nodes[s].kind = N_DECL THEN "Declaration left side is not a variable"
    ELSE "Assignment left side is not a variable"

\* the last statement of a list, NULL if it has none
LastStmt(list) ==
    IF StmtsOf(list) = << >> THEN NULL ELSE StmtsOf(list)[Len(StmtsOf(list))]

(***************************************************************************)
(* C15.  A malformed statement is reported and skipped.  Executing a       *)
(* declaration or assignment whose left child is not a variable, or an if  *)
(* whose right child is not a branches node, adds to what evaluating its   *)
(* expression reports exactly one diagnostics record, naming the           *)
(* malformation; it emits no effects record, changes no slot of the store, *)
(* executes no statement below it (its trace block is the only one) and    *)
(* does not stop the run: the statement after it in a list is executed.    *)
(***************************************************************************)
C15_MalformedReportedAndSkipped ==
    /\ \A s \in DOMAIN nodes :
           LET r == execute_stmt(s, Now)
               v == eval_expr(nodes[s].right, Now)
           IN BadStore(s) /\ ~v.st.halted =>
                  /\ Reported(r.chan) =
                         Append(v.st.chan, ErrRec(BadStoreMessage(s), s))
                  /\ SelectSeq(r.chan, IsTree) = Blocks(<< s >>)
                  /\ r.sym = sym
                  /\ ~r.halted
    /\ \A s \in DOMAIN nodes :
           LET r == execute_stmt(s, Now)
               c == eval_expr(nodes[s].left, Now)
           IN BadIf(s) /\ ~c.st.halted =>
                  /\ Reported(r.chan) =
                         Append(c.st.chan, ErrRec("If branches malformed", s))
                  /\ SelectSeq(r.chan, IsTree) = Blocks(<< s >>)
                  /\ r.sym = sym
                  /\ ~r.halted
    /\ \A l \in DOMAIN nodes :
           LET before == execute_list(nodes[l].left, Now)
               m == LastStmt(nodes[l].left)
               r == execute_list(l, Now)
           IN /\ nodes[l].kind = N_STMTLIST
              /\ nodes[l].right # NULL
              /\ m # NULL
              /\ BadStore(m) \/ BadIf(m)
              /\ ~before.halted
              => \E k \in DOMAIN r.chan :
                     /\ k > Len(before.chan)
                     /\ IsSep(r.chan[k])
                     /\ r.chan[k].node = nodes[l].right

\* a run reported a declaration whose left side is a literal, wrote nothing
\* for it, and executed the print that follows
C15_Witness ==
    /\ pc = "ran"
    /\ ~halted
    /\ sym = ZeroSym
    /\ \E i, j \in DOMAIN chan :
         /\ i < j
         /\ IsErr(chan[i])
         /\ chan[i].node # NULL
         /\ BadStore(chan[i].node)
         /\ nodes[nodes[chan[i].node].left].kind = N_INT
         /\ chan[i] = ErrRec("Declaration left side is not a variable",
                             chan[i].node)
         /\ OutOf(chan, chan[i].node) = << >>
         /\ chan[j].text = "Print: 9"

(***************************************************************************)
(* Internal errors.                                                        *)
(***************************************************************************)
ExprKinds == {N_INT, N_VAR, N_OP}
StmtKinds == {N_DECL, N_ASSIGN, N_PRINT, N_IF, N_STMTLIST}

(***************************************************************************)
(* C16.  Internal errors are reported and survived.  eval_expr at an       *)
(* operator node whose label is none of the ten operators evaluates both   *)
(* operands, reports "Unknown operator in eval_expr" and returns 0;        *)
(* eval_expr at a node that is no literal, variable or operator reports    *)
(* "eval_expr: expected expression node" and returns 0; execute_stmt at a  *)
(* node of no statement kind renders it, reports "Unknown statement kind   *)
(* in execute_stmt" and does nothing else.  None of them stops the         *)
(* program: the 0 is used by the enclosing expression.                     *)
(***************************************************************************)
C16_InternalErrorsReportedAndSurvived ==
    /\ \A n \in DOMAIN nodes :
           nodes[n].kind = N_OP /\ nodes[n].label \notin EOps
               /\ ~RightOf(n).st.halted =>
           eval_expr(n, Now) =
               [val |-> 0,
                st |-> Emit(RightOf(n).st,
                            ErrRec("Unknown operator in eval_expr", n))]
    /\ \A n \in DOMAIN nodes :
           nodes[n].kind \notin ExprKinds =>
           eval_expr(n, Now) =
               [val |-> 0,
                st |-> State(sym,
                             << ErrRec("eval_expr: expected expression node", n) >>,
                             FALSE)]
    /\ \A n \in DOMAIN nodes :
           nodes[n].kind \notin StmtKinds =>
           execute_stmt(n, Now) =
               State(sym,
                     Append(Blocks(<< n >>),
                            ErrRec("Unknown statement kind in execute_stmt", n)),
                     FALSE)
    /\ \A n \in DOMAIN nodes :
           /\ nodes[n].kind = N_OP /\ nodes[n].label = "+"
           /\ nodes[n].left # NULL /\ nodes[n].right # NULL
           /\ nodes[nodes[n].left].kind \notin ExprKinds
           /\ nodes[nodes[n].right].kind = N_INT
           => /\ eval_expr(n, Now).val = nodes[nodes[n].right].int_value
              /\ ~eval_expr(n, Now).st.halted

\* eval_expr was called on 3 % 2: one report, and 0 returned
C16_Witness ==
    /\ pc = "evaluated"
    /\ ~halted
    /\ Root # NULL
    /\ nodes[Root].kind = N_OP /\ nodes[Root].label = "%"
    /\ nodes[nodes[Root].left].kind = N_INT
    /\ nodes[nodes[Root].right].kind = N_INT
    /\ nodes[nodes[Root].left].int_value = 3
    /\ nodes[nodes[Root].right].int_value = 2
    /\ chan = << ErrRec("Unknown operator in eval_expr", Root) >>
    /\ ret = 0

(***************************************************************************)
(* C17.  Both operands, left first.  What eval_expr reports at an          *)
(* operator node is what its left operand reports, then what its right     *)
(* operand reports, then at most one record of its own: no operand is      *)
(* skipped, whatever the other one is worth.  So a division by zero        *)
(* inside the left operand of a `/` is reported although the right         *)
(* operand is 0, and one inside an operand of a `*` although the other     *)
(* operand is 0.                                                           *)
(***************************************************************************)
C17_BothOperandsLeftFirst ==
    \A n \in DOMAIN nodes :
        LET e == eval_expr(n, Now)
            Lc == eval_expr(nodes[n].left, Now).st.chan
            Rc == eval_expr(nodes[n].right, Now).st.chan
            own == Len(e.st.chan) - Len(Lc) - Len(Rc)
        IN nodes[n].kind = N_OP /\ ~e.st.halted =>
               /\ own \in {0, 1}
               /\ SubSeq(e.st.chan, 1, Len(Lc) + Len(Rc)) = Lc \o Rc
               /\ own = 1 => e.st.chan[Len(e.st.chan)].node = n
               /\ nodes[n].label = "/" /\ RightOf(n).val = 0 =>
                      e.st.chan = (Lc \o Rc) \o << ErrRec("Division by zero", n) >>
               /\ nodes[n].label = "*"
                      /\ (LeftOf(n).val = 0 \/ RightOf(n).val = 0) =>
                      e = [val |-> 0, st |-> State(sym, Lc \o Rc, FALSE)]

\* eval_expr was called on (1 / 0) / 0: the inner division is reported, then
\* the outer one
C17_Witness ==
    /\ pc = "evaluated"
    /\ ~halted
    /\ Root # NULL
    /\ IsOp(Root, {"/"})
    /\ IsOp(nodes[Root].left, {"/"})
    /\ nodes[nodes[Root].right].kind = N_INT
    /\ nodes[nodes[Root].right].int_value = 0
    /\ chan = << ErrRec("Division by zero", nodes[Root].left),
                 ErrRec("Division by zero", Root) >>

(***************************************************************************)
(* C18.  eval_expr only reports.  Evaluating any node from any store       *)
(* leaves every slot of the store as it was and adds nothing but           *)
(* diagnostics records to what was written; a call of eval_expr changes    *)
(* no field of any node, no slot of the store, and neither the effects     *)
(* nor the trace channel.                                                  *)
(***************************************************************************)
C18_EvalOnlyReports ==
    /\ [](\A n \in DOMAIN nodes :
              LET e == eval_expr(n, Now)
              IN /\ e.st.sym = sym
                 /\ \A k \in DOMAIN e.st.chan : IsErr(e.st.chan[k]))
    /\ [][pc' = "evaluated" =>
              /\ nodes' = nodes
              /\ sym' = sym
              /\ yyout' = yyout
              /\ yytree' = yytree]_vars

\* eval_expr was called on (x * x) / (var[255] + 3) with x = 5 and
\* var[255] = -3: the division by zero is reported and the store is as before
C18_Witness ==
    /\ pc = "evaluated"
    /\ ~halted
    /\ Root # NULL
    /\ IsOp(Root, {"/"})
    /\ IsOp(nodes[Root].left, {"*"})
    /\ IsOp(nodes[Root].right, {"+"})
    /\ sym[0] = 5 /\ sym[255] = -3
    /\ chan = << ErrRec("Division by zero", Root) >>
    /\ yyout = << >> /\ yytree = << >>
    /\ ret = 0

(***************************************************************************)
(* C19.  Constructors only build.  Until execute_list is called the store  *)
(* is all zero and nothing is written to the effects or the trace          *)
(* channel, and nothing to diagnostics but the parser's own syntax error;  *)
(* a step that builds nodes writes to no channel and to no slot; a node,   *)
(* once built, keeps every field for the rest of the run, and its          *)
(* children were built before it.                                          *)
(***************************************************************************)
C19_ConstructorsOnlyBuild ==
    /\ [](nexec = 0 =>
              /\ sym = ZeroSym
              /\ yyout = << >>
              /\ yytree = << >>
              /\ \A k \in DOMAIN chan :
                     /\ chan[k].node = NULL
                     /\ chan[k].text =
                            "Error: syntax error at line " \o ToString(chan[k].num))
    /\ [](\A i \in DOMAIN nodes :
              /\ nodes[i].left \in 0..(i - 1)
              /\ nodes[i].right \in 0..(i - 1))
    /\ [][/\ Len(nodes') >= Len(nodes)
          /\ \A i \in DOMAIN nodes : nodes'[i] = nodes[i]
          /\ nodes' # nodes => chan' = chan /\ sym' = sym /\ nexec' = nexec]_vars

\* print(5 / 0) is built, division included, and nothing has been reported
C19_Witness ==
    /\ pc = "parse"
    /\ nexec = 0
    /\ chan = << >>
    /\ sym = ZeroSym
    /\ \E p \in DOMAIN nodes :
         /\ nodes[p].kind = N_PRINT
         /\ nodes[p].left # NULL
         /\ IsOp(nodes[p].left, {"/"})
         /\ nodes[nodes[nodes[p].left].right].int_value = 0
         /\ nodes[nodes[nodes[p].left].right].kind = N_INT

(***************************************************************************)
(* The layout of a rendering.                                              *)
(***************************************************************************)
\* the nodes below n with their depths (n at depth d), right subtree first,
\* then n, then the left subtree
RECURSIVE Layout(_, _)
Layout(n, d) ==
    IF n = NULL THEN << >>
    ELSE Layout(nodes[n].right, d + 1)
         \o << [node |-> n, depth |-> d] >>
         \o Layout(nodes[n].left, d + 1)

\* the lines of a rendering that are not empty lines
Lines(recs) == SelectSeq(recs, LAMBDA r : r # BlankLine)

(***************************************************************************)
(* C20.  The rendering is a reverse in-order walk.  Empty lines aside,     *)
(* printTreeVertical(n, 0) writes one line per node below n, a node's      *)
(* right subtree before the node and its left subtree after it; the line   *)
(* of a node at depth d is its label after exactly 5 * d blanks; and the   *)
(* lines print_tree_header adds to it are exactly one separator line,      *)
(* which is the last.                                                      *)
(***************************************************************************)
C20_RenderIsReverseInOrder ==
    \A n \in DOMAIN nodes :
        LET lines == Lines(printTreeVertical(n, 0))
            lay == Layout(n, 0)
            block == Lines(print_tree_header(n, Now).chan)
        IN /\ Len(lines) = Len(lay)
           /\ \A i \in DOMAIN lines :
                  /\ lines[i].node = lay[i].node
                  /\ lines[i].text = nodes[lay[i].node].label
                  /\ lines[i].indent = 5 * lay[i].depth
           /\ \A x \in Subtree(n) :
                  Cardinality({i \in DOMAIN lines : lines[i].node = x}) = 1
           /\ block = Append(lines, Rec("tree", Separator, 0, 0, n))
           /\ \A i \in DOMAIN lines : ~IsSep(lines[i])

\* execute_stmt rendered int x = 1;
C20_Witness ==
    /\ pc = "ran"
    /\ Root # NULL
    /\ nodes[Root].kind = N_DECL
    /\ Texts(Lines(yytree)) = << "INTEGER(1)", "dec", "VAR(id=0)", Separator >>
    /\ [i \in 1..4 |-> Lines(yytree)[i].indent] = << 5, 0, 5, 0 >>
    /\ Len(yytree) = 9

(***************************************************************************)
(* The parser's reductions, seen from outside.                             *)
(***************************************************************************)
\* the step taken reduces rule n (the only step that moves the stack when
\* rule n is what yybackup decides on)
Reducing(n) == Decide(Top(yyss)) = [do |-> "reduce", n |-> n] /\ yyss' # yyss

\* the node held by yyvsp[k]
yyvsp(k) == yyvs[Len(yyvs) + k].node

\* a list as the grammar builds it: none, or a chain of stmtlist nodes
IsListOrNone(l) == l = NULL \/ nodes[l].kind = N_STMTLIST

(***************************************************************************)
(* C21.  One shape for every if.  The reduction of an if statement, with   *)
(* or without an else, adds exactly two nodes: a branches node holding the *)
(* then list on the left and the else list on the right (NULL when no else *)
(* was written), and an if node holding the condition on the left and      *)
(* that branches node on the right.  So every if node of a parsed program  *)
(* has a condition and a branches node, and the two forms differ only in   *)
(* the else list being NULL.                                               *)
(***************************************************************************)
C21_UniformIfShape ==
    /\ [](\A s \in DOMAIN nodes :
              nodes[s].kind = N_IF =>
                  /\ IsIf(s)
                  /\ nodes[s].left # NULL
                  /\ nodes[nodes[s].left].kind \in {N_INT, N_VAR, N_OP}
                  /\ nodes[s].right = s - 1
                  /\ IsListOrNone(ThenList(s))
                  /\ IsListOrNone(ElseList(s)))
    /\ [](\A b \in DOMAIN nodes :
              nodes[b].kind = N_BRANCHES =>
                  b + 1 \in DOMAIN nodes /\ nodes[b + 1].kind = N_IF)
    /\ [][Reducing(13) =>
              nodes' = nodes \o
                  << Node("branches", N_BRANCHES, yyvsp(-4), yyvsp(-1), 0, -1),
                     Node("if", N_IF, yyvsp(-7), Len(nodes) + 1, 0, -1) >>]_vars
    /\ [][Reducing(14) =>
              nodes' = nodes \o
                  << Node("branches", N_BRANCHES, yyvsp(-1), NULL, 0, -1),
                     Node("if", N_IF, yyvsp(-4), Len(nodes) + 1, 0, -1) >>]_vars

\* a program with an if that has an else list and an if that has none
C21_Witness ==
    /\ pc = "accepted"
    /\ \E s, t \in DOMAIN nodes :
         /\ IsIf(s) /\ IsIf(t)
         /\ ThenList(s) # NULL /\ ElseList(s) # NULL
         /\ ThenList(t) # NULL /\ ElseList(t) = NULL

(***************************************************************************)
(* Writes to the store.                                                    *)
(***************************************************************************)
\* a declaration or assignment whose variable names no slot of the store
TargetsOutside(s) ==
    /\ nodes[s].kind \in {N_DECL, N_ASSIGN}
    /\ nodes[s].left # NULL
    /\ nodes[nodes[s].left].kind = N_VAR
    /\ ~InStore(nodes[nodes[s].left].var_id)

\* statement s got as far as sym[id] = val: either the line that follows
\* the assignment was written, or the run was killed in s after its
\* expression had been evaluated
WritePerformed(s) ==
    \/ OutOf(chan, s) # << >>
    \/ /\ halted
       /\ s = Executed[Len(Executed)]
       /\ ~eval_expr(nodes[s].right, Now).st.halted

(***************************************************************************)
(* C22.  As claimed: whatever tree the constructors built, no declaration  *)
(* or assignment that is executed performs a write to an id outside        *)
(* 0..255.                                                                 *)
(* Violated: new_var_node takes any int and execute_stmt assigns           *)
(* sym[id] without a range test (the read in eval_expr has one).           *)
(***************************************************************************)
C22_WritesInsideStore ==
    \A s \in Range(Executed) : TargetsOutside(s) => ~WritePerformed(s)

(***************************************************************************)
(* Reads of the store.                                                     *)
(***************************************************************************)
\* a store none of whose slots holds 0
SevenSym == [i \in 0..(SymSize - 1) |-> 7]

IsVar(n) == nodes[n].kind = N_VAR

(***************************************************************************)
(* C23.  A read outside the store yields 0.  Evaluating a variable whose   *)
(* id is not in 0..255 returns 0 and reports nothing, whatever the store   *)
(* holds: even when no slot of the store is 0, so no slot is read.  (A     *)
(* variable whose id is in 0..255, 0 and 255 included, yields its slot.)   *)
(***************************************************************************)
C23_ReadOutsideStoreIsZero ==
    \A n \in DOMAIN nodes :
        IsVar(n) =>
            /\ ~InStore(nodes[n].var_id) =>
                   /\ eval_expr(n, Now) = [val |-> 0, st |-> Now]
                   /\ eval_expr(n, State(SevenSym, << >>, FALSE)).val = 0
            /\ InStore(nodes[n].var_id) =>
                   /\ eval_expr(n, Now) = [val |-> sym[nodes[n].var_id], st |-> Now]
                   /\ eval_expr(n, State(SevenSym, << >>, FALSE)).val = 7

\* eval_expr was called on var[256] - var[-1] with var[0] = 5 and
\* var[255] = -3: nothing reported, 0 returned
C23_Witness ==
    /\ pc = "evaluated"
    /\ ~halted
    /\ Root # NULL
    /\ IsOp(Root, {"-"})
    /\ IsVar(nodes[Root].left) /\ nodes[nodes[Root].left].var_id = 256
    /\ IsVar(nodes[Root].right) /\ nodes[nodes[Root].right].var_id = -1
    /\ sym[0] = 5 /\ sym[255] = -3
    /\ chan = << >>
    /\ ret = 0

(***************************************************************************)
(* Declarations on record.                                                 *)
(***************************************************************************)
\* the id a declaration or assignment names
TargetOf(s) == nodes[nodes[s].left].var_id

\* the effects record of statement s
StoreRec(s, val) ==
    Rec("out", Verb(s) \o " var[" \o ToString(TargetOf(s)) \o "] = "
                 \o ToString(val), 0, val, s)

\* the declarations executed before statement s that name the id of s
DeclaredBefore(s) ==
    { k \in DOMAIN Executed :
        /\ \E j \in DOMAIN Executed : k < j /\ Executed[j] = s
        /\ nodes[Executed[k]].kind = N_DECL
        /\ IsStore(Executed[k])
        /\ TargetOf(Executed[k]) = TargetOf(s) }

(***************************************************************************)
(* C24.  No declaration is checked.  A declaration or assignment of an id  *)
(* of the store, executed from any store the program can have reached      *)
(* (the id declared before, once or more, or never), stores the value of   *)
(* its right side at the id, writes its "Declared"/"Assigned" line and     *)
(* reports nothing of its own; so does, in a run, an assignment no         *)
(* declaration precedes and a declaration that another one precedes.       *)
(* int a = 1; int a = 2; b = 3; print(a + b); prints 5 and reports         *)
(* nothing.                                                                *)
(***************************************************************************)
C24_NoDeclarationCheck ==
    /\ \A s \in DOMAIN nodes :
           LET v == eval_expr(nodes[s].right, Now)
               r == execute_stmt(s, Now)
           IN IsStore(s) /\ ~v.st.halted =>
                  /\ r.sym = [sym EXCEPT ![TargetOf(s)] = v.val]
                  /\ OutOf(r.chan, s) = << StoreRec(s, v.val) >>
                  /\ ErrOf(r.chan, s) = << >>
                  /\ ~r.halted
    /\ \A s \in Range(Executed) :
           IsStore(s) /\ ~halted =>
               /\ Len(OutOf(chan, s)) = 1
               /\ ErrOf(chan, s) = << >>
    /\ script = DeclaredTwiceScript /\ pc = "accepted" /\ ~halted =>
           /\ Texts(chan) \in Seq({"", Separator} \cup
                                  { nodes[n].label : n \in DOMAIN nodes } \cup
                                  {"Declared var[0] = 1", "Declared var[0] = 2",
                                   "Assigned var[1] = 3", "Print: 5"})
           /\ Texts(Reported(chan)) =
                  << "Declared var[0] = 1", "Declared var[0] = 2",
                     "Assigned var[1] = 3", "Print: 5" >>
           /\ sym = [ZeroSym EXCEPT ![0] = 2, ![1] = 3]

\* a run executed a declaration of an id already declared and an assignment
\* to an id never declared; both wrote their line, nothing was reported
C24_Witness ==
    /\ pc = "accepted"
    /\ ~halted
    /\ yyError = << >>
    /\ \E d, a \in Range(Executed) :
         /\ IsStore(d) /\ nodes[d].kind = N_DECL /\ DeclaredBefore(d) # {}
         /\ IsStore(a) /\ nodes[a].kind = N_ASSIGN /\ DeclaredBefore(a) = {}
         /\ OutOf(chan, d) = << StoreRec(d, sym[TargetOf(d)]) >>
         /\ OutOf(chan, a) = << StoreRec(a, sym[TargetOf(a)]) >>

(***************************************************************************)
(* The shape of the heap.                                                  *)
(***************************************************************************)
\* the child slots that hold node n
SlotsOf(n) ==
    { p \in DOMAIN nodes : nodes[p].left = n }
        \cup { -p : p \in { q \in DOMAIN nodes : nodes[q].right = n } }

\* the nodes the parser holds on its value stack
OnStack == { yyvs[i].node : i \in DOMAIN yyvs } \ {NULL}

(***************************************************************************)
(* C25.  The tree is strict.  In every state of a parse and of the         *)
(* execution that ends it, a node sits in at most one child slot, no node  *)
(* is below itself, and, until a syntax error empties the stack, the nodes *)
(* in no slot are exactly the nodes held on the parser's value stack, each *)
(* held once: a reduction moves every node it takes from the stack into    *)
(* one slot of the node it builds.                                         *)
(***************************************************************************)
C25_StrictTree ==
    /\ \A n \in DOMAIN nodes :
           /\ Cardinality(SlotsOf(n)) <= 1
           /\ n \notin Subtree(nodes[n].left) \cup Subtree(nodes[n].right)
    /\ pc # "aborted" =>
           /\ { n \in DOMAIN nodes : SlotsOf(n) = {} } = OnStack
           /\ \A i, j \in DOMAIN yyvs :
                  yyvs[i].node # NULL /\ yyvs[i].node = yyvs[j].node => i = j

\* a = a + 4; is built: the two uses of a are two nodes, each in one slot
C25_Witness ==
    /\ pc = "accepted"
    /\ \E s \in DOMAIN nodes :
         /\ nodes[s].kind = N_ASSIGN
         /\ IsOp(nodes[s].right, {"+"})
         /\ IsVar(nodes[s].left)
         /\ IsVar(nodes[nodes[s].right].left)
         /\ nodes[nodes[s].left].var_id = nodes[nodes[nodes[s].right].left].var_id
         /\ nodes[s].left # nodes[nodes[s].right].left
         /\ Cardinality(SlotsOf(nodes[s].left)) = 1
         /\ Cardinality(SlotsOf(nodes[nodes[s].right].left)) = 1

(***************************************************************************)
(* Trees of the grammar.                                                   *)
(***************************************************************************)
IsExpr(n) == n # NULL /\ nodes[n].kind \in ExprKinds

\* node n is one the grammar actions build, with the children they give it
WellFormed(n) ==
    LET l == nodes[n].left
        r == nodes[n].right
    IN CASE nodes[n].kind \in {N_INT, N_VAR} -> l = NULL /\ r = NULL
         [] nodes[n].kind = N_OP -> IsExpr(l) /\ IsExpr(r)
         [] nodes[n].kind \in {N_DECL, N_ASSIGN} ->
                l # NULL /\ IsVar(l) /\ IsExpr(r)
         [] nodes[n].kind = N_PRINT -> IsExpr(l) /\ r = NULL
         [] nodes[n].kind = N_IF -> IsExpr(l) /\ IsIf(n)
         [] nodes[n].kind = N_BRANCHES -> IsListOrNone(l) /\ IsListOrNone(r)
         [] nodes[n].kind = N_STMTLIST ->
                /\ IsListOrNone(l)
                /\ r # NULL
                /\ nodes[r].kind \in {N_DECL, N_ASSIGN, N_PRINT, N_IF}
         [] OTHER -> FALSE

\* the operator labels of the heap
OpLabels == { nodes[n].label : n \in { m \in DOMAIN nodes : nodes[m].kind = N_OP } }

DivisionByZeroOnly(recs) ==
    \A k \in DOMAIN recs :
        recs[k].text = "Error: Division by zero at line " \o ToString(recs[k].num)

(***************************************************************************)
(* C26.  Of the executor's conditions, a parsed program reaches only       *)
(* the division by zero.  Every node the grammar actions build has the     *)
(* kind and the children its statement or expression needs (the variable   *)
(* of a declaration or assignment is never missing), and what is handed to *)
(* execute_list is a list or nothing; so when the operator tokens of the   *)
(* program are among + - * / == != <= >= < >, the diagnostics of a run     *)
(* whose parse succeeds are division-by-zero records only.  (With another  *)
(* operator token, as in if (1 % 2): ..., "Unknown operator in eval_expr"  *)
(* is reported.)                                                           *)
(***************************************************************************)
C26_OnlyDivisionByZeroReachable ==
    /\ \A n \in DOMAIN nodes : WellFormed(n)
    /\ nexec > 0 => IsListOrNone(Root)
    /\ OpLabels \subseteq EOps =>
           /\ pc = "accepted" => DivisionByZeroOnly(yyError)
           /\ \A k \in DOMAIN yyError :
                  yyError[k].node # NULL => DivisionByZeroOnly(<< yyError[k] >>)
    /\ script = UnknownOpScript /\ pc = "accepted" =>
           Texts(Reported(chan)) =
               << "Error: Unknown operator in eval_expr at line "
                      \o ToString(yylineno) >>

\* a program with an if, an assignment and a print was parsed and executed;
\* a division by zero was reported, and nothing else
C26_Witness ==
    /\ pc = "accepted"
    /\ ~halted
    /\ OpLabels \subseteq EOps
    /\ yyError # << >>
    /\ DivisionByZeroOnly(yyError)
    /\ \E s \in Range(Executed) : IsIf(s)
    /\ \E s \in Range(Executed) : nodes[s].kind = N_PRINT
    /\ \E s \in DOMAIN nodes : nodes[s].kind = N_ASSIGN

(***************************************************************************)
(* C27.  The write frame.  Executing a declaration or assignment leaves    *)
(* every slot other than the one its variable names as it was; executing   *)
(* a print, and evaluating the condition of an if, leave every slot as it  *)
(* was.  So at the end of a run a slot differs from its initial 0 only if  *)
(* a declaration or assignment naming it wrote its line.                   *)
(***************************************************************************)
C27_WriteFrame ==
    /\ \A s \in DOMAIN nodes :
           LET r == execute_stmt(s, Now)
           IN nodes[s].kind \in {N_DECL, N_ASSIGN} =>
                  IF IsStore(s)
                  THEN r.sym = [sym EXCEPT ![TargetOf(s)] = r.sym[TargetOf(s)]]
                  ELSE r.sym = sym
    /\ \A s \in DOMAIN nodes :
           nodes[s].kind = N_PRINT => execute_stmt(s, Now).sym = sym
    /\ \A s \in DOMAIN nodes :
           nodes[s].kind = N_IF => Cond(s).st.sym = sym
    /\ \A j \in { i \in DOMAIN sym : sym[i] # 0 } :
           \E k \in DOMAIN chan : WritesTo(chan[k], j) /\ IsStore(chan[k].node)

\* if (x) ... else list(int x = 5, print(x)) was executed: slot 0 holds 5
\* and every other slot 0
C27_Witness ==
    /\ pc = "ran"
    /\ ~halted
    /\ sym = [ZeroSym EXCEPT ![0] = 5]
    /\ \E k \in DOMAIN chan : WritesTo(chan[k], 0) /\ chan[k].num = 5
    /\ \E s \in Range(Executed) : nodes[s].kind = N_PRINT

(***************************************************************************)
(* C28.  An expression statement is a print.  The reduction of expr ;      *)
(* builds the node the reduction of print ( expr ) ; builds: a print node  *)
(* over the expression.  Executing a print node, however it was built,     *)
(* writes one trace block, what its expression reports and the line        *)
(* "Print: <value>", and leaves the store as it was.  So the program       *)
(* <n> ; writes what print(<n>); writes: the block of print over           *)
(* INTEGER(<n>) and "Print: <n>".                                          *)
(***************************************************************************)
C28_ExprStatementIsPrint ==
    /\ [][Reducing(9) =>
              nodes' = Append(nodes, Node("print", N_PRINT, yyvsp(-1), NULL, 0, -1))]_vars
    /\ [][Reducing(12) =>
              nodes' = Append(nodes, Node("print", N_PRINT, yyvsp(-2), NULL, 0, -1))]_vars
    /\ [](\A s \in DOMAIN nodes :
              LET v == eval_expr(nodes[s].left, Now)
              IN nodes[s].kind = N_PRINT /\ ~v.st.halted =>
                     execute_stmt(s, Now) =
                         State(sym,
                               (Blocks(<< s >>) \o v.st.chan)
                                   \o << Rec("out", "Print: " \o ToString(v.val),
                                             0, v.val, s) >>,
                               FALSE))
    /\ [](/\ pc = "accepted"
          /\ Len(nodes) = 3
          /\ nodes[1].kind = N_INT
          /\ nodes[2].kind = N_PRINT
          /\ nodes[3].kind = N_STMTLIST
          => /\ Texts(chan) =
                    << "", "print", "", nodes[1].label, "", Separator, "",
                       "Print: " \o ToString(nodes[1].int_value) >>
             /\ sym = ZeroSym)

\* the two tokens 1 ; were parsed and executed
C28_Witness ==
    /\ pc = "accepted"
    /\ script = << >>
    /\ ntok = 2
    /\ Len(nodes) = 3
    /\ nodes[2].kind = N_PRINT
    /\ nodes[2].left = 1
    /\ Texts(yyout) = << "Print: 1" >>
    /\ Len(Executed) = 1

(***************************************************************************)
(* C29.  Division truncates toward zero.  For a `/` node whose operands    *)
(* are worth L and R, R not 0 (and the quotient an int, which excludes     *)
(* only INT_MIN / -1), eval_expr returns the q for which the remainder     *)
(* L - q * R is smaller than R in absolute value and is 0 or has the sign  *)
(* of L, and it reports nothing of its own.  (0 - 7) / 2 and 7 / (0 - 2)   *)
(* are -3, (0 - 7) / (0 - 2) and 7 / 2 are 3.                              *)
(***************************************************************************)
C29_DivisionTruncates ==
    \A n \in DOMAIN nodes :
        LET L == LeftOf(n).val
            R == RightOf(n).val
            e == eval_expr(n, Now)
            rem == L - e.val * R
        IN /\ IsOp(n, {"/"})
           /\ ~RightOf(n).st.halted
           /\ R # 0
           /\ ~(L = INT_MIN /\ R = -1)
           => /\ e.st = RightOf(n).st
              /\ R > 0 => -R < rem /\ rem < R
              /\ R < 0 => R < rem /\ R < -rem
              /\ L >= 0 => rem >= 0
              /\ L <= 0 => rem <= 0
              /\ L = -7 /\ R = 2 => e.val = -3
              /\ L = 7 /\ R = -2 => e.val = -3
              /\ L = -7 /\ R = -2 => e.val = 3
              /\ L = 7 /\ R = 2 => e.val = 3

\* eval_expr was called on (0 - 7) / 2 and returned -3, reporting nothing
C29_Witness ==
    /\ pc = "evaluated"
    /\ ~halted
    /\ Root # NULL
    /\ IsOp(Root, {"/"})
    /\ IsOp(nodes[Root].left, {"-"})
    /\ LeftOf(Root).val = -7
    /\ nodes[nodes[Root].right].kind = N_INT
    /\ RightOf(Root).val = 2
    /\ chan = << >>
    /\ ret = -3

====
